---- MODULE Spec2Model ----
(***************************************************************************)
(* The knowledge-ingestion pipeline of cogos-ai: the quality controller    *)
(* (backend/ingestion/quality_control/quality_controller.py), the content  *)
(* processor (app/api/ingestion/processors/content_processor.py), the      *)
(* storage manager (backend/ingestion/storage/storage_manager.py) and the  *)
(* ingestion coordinator (app/api/ingestion/ingestion_coordinator.py).     *)
(***************************************************************************)
EXTENDS Integers, Sequences, FiniteSets, Bags, TLC

(***************************************************************************)
(* Python strings.  A str is kept run-length encoded: a sequence of runs   *)
(* [c, n], the character c repeated n times, with no two adjacent runs of  *)
(* the same character.  The alphabet is "a", "b", "A" (upper case of "a"), *)
(* the blank " " and the newline "\n"; the last two are the whitespace.    *)
(***************************************************************************)
Run(c, n) == [c |-> c, n |-> n]

\* Python's None where a str is expected
None == <<Run("None", 0)>>

\* an id given by the caller, and the absent id
Id(name) == <<"id", <<Run(name, 1)>>>>
NoId == <<"none", <<>>>>

IsSpace(ch) == ch \in {" ", "\n"}

LowerChar(ch) == IF ch = "A" THEN "a" ELSE ch

RECURSIVE Canon(_)
\* the canonical encoding of a run sequence: adjacent runs of one character merged
Canon(t) ==
    IF Len(t) <= 1 THEN t
    ELSE IF t[1].c = t[2].c
         THEN Canon(<<Run(t[1].c, t[1].n + t[2].n)>> \o SubSeq(t, 3, Len(t)))
         ELSE <<t[1]>> \o Canon(Tail(t))

\* s1 + s2
concat(s1, s2) == Canon(s1 \o s2)

RECURSIVE str_len(_)
\* len(s)
str_len(t) == IF t = <<>> THEN 0 ELSE t[1].n + str_len(Tail(t))

RECURSIVE lstrip(_)
lstrip(t) == IF t # <<>> /\ IsSpace(t[1].c) THEN lstrip(Tail(t)) ELSE t

RECURSIVE rstrip(_)
rstrip(t) ==
    IF t # <<>> /\ IsSpace(t[Len(t)].c) THEN rstrip(SubSeq(t, 1, Len(t) - 1)) ELSE t

\* s.strip()
strip(t) == rstrip(lstrip(t))

\* s.lower()
lower(t) == Canon([i \in 1..Len(t) |-> Run(LowerChar(t[i].c), t[i].n)])

\* re.sub(r'\s+', ' ', s): every maximal group of whitespace becomes one blank
sub_whitespace(t) ==
    LET OneBlank(blanks) ==
            [i \in 1..Len(blanks) |->
                IF blanks[i].c = " " THEN Run(" ", 1) ELSE blanks[i]]
    IN  OneBlank(Canon([i \in 1..Len(t) |->
                          IF IsSpace(t[i].c) THEN Run(" ", t[i].n) ELSE t[i]]))

\* re.sub(r'[ \t]+', ' ', s): every run of blanks becomes one blank, newlines stay
sub_blanks(t) == [i \in 1..Len(t) |-> IF t[i].c = " " THEN Run(" ", 1) ELSE t[i]]

RECURSIVE WordEnd(_, _)
\* the index of the last run of the word of s that starts at run i
WordEnd(s, i) == IF i > Len(s) \/ IsSpace(s[i].c) THEN i - 1 ELSE WordEnd(s, i + 1)

RECURSIVE split(_)
\* s.split(): the words of s, each word a str
split(t) ==
    LET Cut(s, e) == <<SubSeq(s, 1, e)>> \o split(SubSeq(s, e + 1, Len(s)))
        Words(s) == IF s = <<>> THEN <<>> ELSE Cut(s, WordEnd(s, 1))
    IN  Words(lstrip(t))

\* hashlib.md5(s.encode('utf-8')).hexdigest(): a digest, taken as collision free
md5_hexdigest(t) == <<"md5", t>>

Range(f) == {f[i] : i \in DOMAIN f}

(***************************************************************************)
(* Quality controller: quality_controller.py                               *)
(***************************************************************************)
\* QualityLevel
EXCELLENT == "excellent"
GOOD == "good"
ACCEPTABLE == "acceptable"
POOR == "poor"
REJECTED == "rejected"

\* Scores are whole points: every dimension score in the source is a literal
\* 0.0, 1.0, ..., 10.0 and they are combined with -, min and + 1.0 only.
PERFECT == 10

\* the constants of the length check (lines 249 and 252)
QUITE_SHORT == 100
VERY_LONG == 500000
\* the constant of the similarity placeholder (line 526), and 0.7 (line 277)
\* in hundredths
SIMILARITY_PAD == 100
SIMILAR_PCT == 70

\* QualityController.__init__: the defaults of the four settings; the
\* duplicate threshold 0.85 is kept in hundredths
DEFAULT_MIN_QUALITY_SCORE == 3
DEFAULT_DUPLICATE_THRESHOLD == 85
DEFAULT_MIN_CONTENT_LENGTH == 50
DEFAULT_MAX_CONTENT_LENGTH == 1000000

\* dict.get(key, default)
get_or(d, key, default) == IF key \in DOMAIN d THEN d[key] ELSE default

QualityConfig(min_quality_score) ==
    [min_quality_score  |-> min_quality_score,
     duplicate_threshold |-> DEFAULT_DUPLICATE_THRESHOLD,
     min_content_length |-> DEFAULT_MIN_CONTENT_LENGTH,
     max_content_length |-> DEFAULT_MAX_CONTENT_LENGTH]

Min(a, b) == IF a <= b THEN a ELSE b

Check(issues, score) == [issues |-> issues, score |-> score]

\* An issue whose text quotes a number or a list is kept without what it quotes.
_validate_content_length(content, cfg) ==
    LET Length(length) ==
            IF length < cfg.min_content_length THEN Check(<<"Content too short">>, 1)
            ELSE IF length > cfg.max_content_length THEN Check(<<"Content too long">>, 3)
            ELSE IF length < QUITE_SHORT
            THEN Check(<<"Content is quite short, may lack detail">>, 6)
            ELSE IF length > VERY_LONG
            THEN Check(<<"Content is very long, may need chunking">>, 7)
            ELSE Check(<<>>, PERFECT)
    IN  Length(str_len(strip(content)))

\* the hash of the text as it stands, with no normalization
_generate_content_hash_unnormalized(content) == md5_hexdigest(content)

_generate_content_hash(content) ==
    md5_hexdigest(sub_whitespace(strip(lower(content))))

\* A similarity is the fraction num / den.  Every fingerprint with another
\* hash contributes the same value, words / (words + 100).
_calculate_content_similarity(content, content_hash, content_fingerprints) ==
    LET content_words == Range(split(sub_whitespace(strip(lower(content)))))
        others == {x \in DOMAIN content_fingerprints :
                      content_fingerprints[x] # content_hash}
        Jaccard(words) == [num |-> words, den |-> words + SIMILARITY_PAD]
    IN  IF others = {} THEN [num |-> 0, den |-> 1]
        ELSE Jaccard(Cardinality(content_words))

\* sim > pct / 100
Exceeds(sim, pct) == sim.num * 100 > pct * sim.den

_check_duplicates(content, content_hashes, content_fingerprints, cfg) ==
    LET Compare(content_hash, similarity_score) ==
            IF content_hash \in content_hashes
            THEN Check(<<"Exact duplicate content detected">>, 0)
            ELSE IF Exceeds(similarity_score, cfg.duplicate_threshold)
            THEN Check(<<"Near-duplicate content detected">>, 2)
            ELSE IF Exceeds(similarity_score, SIMILAR_PCT)
            THEN Check(<<"Similar content exists">>, 6)
            ELSE Check(<<>>, PERFECT)
        Hashed(content_hash) ==
            Compare(content_hash,
                    _calculate_content_similarity(content, content_hash,
                                                  content_fingerprints))
    IN  Hashed(_generate_content_hash(content))

(***************************************************************************)
(* The text analyses, as they come out on texts over the model's alphabet: *)
(* letters and whitespace only, so no digit, no punctuation, no bracket,   *)
(* no underscore, no URL and no character outside ASCII occurs.            *)
(***************************************************************************)
RECURSIVE CountChars(_, _)
\* the number of characters of t that are in the set chars
CountChars(t, chars) ==
    IF t = <<>> THEN 0
    ELSE (IF t[1].c \in chars THEN t[1].n ELSE 0) + CountChars(Tail(t), chars)

Letters == {"a", "b", "A"}

\* sum(1 for x in seq if test(x)), flags[i] being test(seq[i])
Count(flags) == Cardinality({i \in DOMAIN flags : flags[i]})

RECURSIVE Newline(_, _)
\* the index of the first run of newlines of t from run i on, Len(t) + 1 if none
Newline(t, i) == IF i > Len(t) \/ t[i].c = "\n" THEN i ELSE Newline(t, i + 1)

RECURSIVE split_lines(_)
\* s.split('\n')
split_lines(t) ==
    LET Lines(k) ==
            IF k > Len(t) THEN <<t>>
            ELSE <<SubSeq(t, 1, k - 1)>> \o [i \in 1..(t[k].n - 1) |-> <<>>]
                 \o split_lines(SubSeq(t, k + 1, Len(t)))
    IN  Lines(Newline(t, 1))

\* str.isprintable() is false of the newline; str.isalpha() is true of the letters
_is_mostly_garbled(content) ==
    \/ content = <<>>
    \/ 10 * CountChars(content, Letters \cup {" "}) < 8 * str_len(content)
    \/ 10 * CountChars(content, Letters) < 3 * str_len(content)

_has_excessive_repetition(content) ==
    LET Repetitions(lines, substantial, i) ==
            Cardinality({j \in substantial : lines[j] = lines[i]})
        MaxRepetition(lines, substantial) ==
            IF substantial = {} THEN 0
            ELSE CHOOSE m \in {Repetitions(lines, substantial, i) : i \in substantial} :
                     \A i \in substantial : Repetitions(lines, substantial, i) <= m
        Repeated(lines, stripped) ==
            IF Len(lines) < 5 THEN FALSE
            ELSE 5 * MaxRepetition(stripped,
                                   {i \in DOMAIN stripped : str_len(stripped[i]) > 10})
                 > Len(lines)
        Stripped(lines) == Repeated(lines, [i \in DOMAIN lines |-> strip(lines[i])])
    IN  Stripped(split_lines(content))

\* r'[\x00-\x1F]{2,}': two control characters in a row, here two newlines
_has_language_mixing_issues(content) ==
    \E i \in DOMAIN content : content[i].c = "\n" /\ content[i].n >= 2

\* r'\b[A-Z]{2,}\b' finds the words of two or more capitals, r'\b[a-z]+[A-Z]\w*\b'
\* the words that start in lower case and hold a capital; the other five
\* patterns need a character the alphabet lacks
_count_technical_indicators(content) ==
    LET Acronym(w) == Len(w) = 1 /\ w[1].c = "A" /\ w[1].n >= 2
        CamelCase(w) == w[1].c # "A" /\ \E k \in 2..Len(w) : w[k].c = "A"
        Indicators(words) ==
            Count([i \in DOMAIN words |-> Acronym(words[i])])
                + Count([i \in DOMAIN words |-> CamelCase(words[i])])
    IN  Indicators(split(content))

\* re.split(r'[.!?]+', content) gives one sentence, fewer than three: 1.0,
\* in hundredths
_assess_coherence(content) == 100

\* in hundredths, times the number of words (no word count divides); at most
\* 0.5 + 0.3 + 0.2 = 1.0, so min(value, 1.0) changes nothing
_assess_information_value(content) ==
    LET ProperNoun(w) == w[1].c = "A"
        Value(words, technical_score, proper_nouns) ==
            [words |-> words,
             value |-> 50 * words + Min(5 * technical_score, 30) * words
                       + Min(100 * proper_nouns, 20 * words)]
        Words(words) ==
            Value(Len(words), _count_technical_indicators(content),
                  Count([i \in DOMAIN words |-> ProperNoun(words[i])]))
    IN  Words(split(content))

_analyze_content_quality(content) ==
    LET Repetition(repetition) ==
            IF repetition THEN Check(<<"Content has excessive repetition">>, 4)
            ELSE Check(<<>>, PERFECT)
        Mixing(score, mixing) ==
            IF mixing
            THEN Check(<<"Content has language mixing or encoding issues">>, Min(score, 6))
            ELSE Check(<<>>, score)
        Coherence(score, coherence_score) ==
            IF coherence_score < 30
            THEN Check(<<"Content lacks coherence or structure">>, Min(score, 5))
            ELSE IF coherence_score < 60
            THEN Check(<<"Content structure could be improved">>, Min(score, 7))
            ELSE Check(<<>>, score)
        Information(score, info) ==
            IF info.value < 30 * info.words
            THEN Check(<<"Content has low information value">>, Min(score, 4))
            ELSE IF info.value < 60 * info.words
            THEN Check(<<"Content could be more informative">>, Min(score, 7))
            ELSE Check(<<>>, score)
        Fourth(c1, c2, c3, c4) ==
            Check(c1.issues \o c2.issues \o c3.issues \o c4.issues, c4.score)
        Third(c1, c2, c3) ==
            Fourth(c1, c2, c3, Information(c3.score, _assess_information_value(content)))
        Second(c1, c2) == Third(c1, c2, Coherence(c2.score, _assess_coherence(content)))
        First(c1) == Second(c1, Mixing(c1.score, _has_language_mixing_issues(content)))
    IN  IF _is_mostly_garbled(content)
        THEN Check(<<"Content appears to be garbled or corrupted">>, 1)
        ELSE First(Repetition(_has_excessive_repetition(content)))

\* len(content) divides: ZeroDivisionError on an empty text
_validate_format_raises(content) == str_len(content) = 0

\* the names of the model that hold 'pdf'
PdfNames == {"scan.pdf"}

\* No special character, one sentence.  item.name is '' when the dict has no 'name'.
_validate_format(content, item) ==
    IF item.name \in PdfNames /\ Len(split(content)) < 50
    THEN Check(<<"PDF extraction may have failed">>, 4)
    ELSE Check(<<>>, PERFECT)

\* every word is alphabetic; of the filler words only 'a' is over the alphabet
_check_information_density(content) ==
    LET Filler(w) == lower(w) = <<Run("a", 1)>>
        Diversity(words, unique_words) ==
            IF 10 * unique_words < 3 * words THEN Check(<<"Low vocabulary diversity">>, 5)
            ELSE IF 10 * unique_words < 5 * words
            THEN Check(<<"Moderate vocabulary diversity">>, 7)
            ELSE Check(<<>>, PERFECT)
        Fillers(score, words, fillers) ==
            IF 2 * fillers > words
            THEN Check(<<"High ratio of filler words">>, Min(score, 6))
            ELSE Check(<<>>, score)
        Technical(score, technical_count) ==
            IF technical_count > 5 THEN Min(score + 1, 10) ELSE score
        Third(c1, c2) ==
            Check(c1.issues \o c2.issues,
                  Technical(c2.score, _count_technical_indicators(content)))
        Second(words, c1) ==
            Third(c1, Fillers(c1.score, Len(words),
                              Count([i \in DOMAIN words |-> Filler(words[i])])))
        First(words) ==
            IF words = <<>> THEN Check(<<"No extractable words found">>, 1)
            ELSE Second(words,
                        Diversity(Len(words),
                                  Cardinality({lower(words[i]) : i \in DOMAIN words})))
    IN  First(split(content))

\* item.keys: the keys the dict holds, each with a value that is not empty; the
\* time stamps are in ISO format.  The issue on the recommended fields lists the
\* missing ones; the list is left out of the text.
_validate_metadata(item) ==
    LET required_fields == <<"source", "collection_time">>
        recommended_fields == {"created_time", "modified_time", "title", "path"}
        Required(missing) ==
            Check([i \in 1..Len(missing) |->
                      IF missing[i] = "source" THEN "Missing required metadata: source"
                      ELSE "Missing required metadata: collection_time"],
                  IF missing = <<>> THEN PERFECT ELSE 6)
        Recommended(c1) ==
            IF recommended_fields \subseteq item.keys THEN c1
            ELSE Check(Append(c1.issues, "Missing recommended metadata"),
                       Min(c1.score, 8))
    IN  Recommended(Required(SelectSeq(required_fields,
                                       LAMBDA field : field \notin item.keys)))

\* the sources of the model whose name holds one of 'unknown', 'temp', 'cache'
LowReliabilitySources == {"unknown"}
\* ... and one of 'academic', ..., 'apple_notes', 'obsidian'
HighReliabilitySources == {"obsidian"}

\* item.source is '' when the dict has no 'source'.  No text over the model's
\* alphabet holds 'viagra' or 'click here'.
_check_source_reliability(item) ==
    LET s1 == IF item.source \in HighReliabilitySources
              THEN Min(PERFECT + 1, 10) ELSE PERFECT
    IN  IF item.source \in LowReliabilitySources
        THEN Check(<<"Content from potentially unreliable source">>, Min(s1, 6))
        ELSE Check(<<>>, s1)

\* the thresholds compared with > in place of >=
_determine_quality_level_strict(score) ==
    IF score > 8 THEN EXCELLENT
    ELSE IF score > 6 THEN GOOD
    ELSE IF score > 4 THEN ACCEPTABLE
    ELSE IF score > 2 THEN POOR
    ELSE REJECTED

_determine_quality_level(score) ==
    IF score >= 8 THEN EXCELLENT
    ELSE IF score >= 6 THEN GOOD
    ELSE IF score >= 4 THEN ACCEPTABLE
    ELSE IF score >= 2 THEN POOR
    ELSE REJECTED

\* round(score, 2) of a whole number of points
round2(score) == score

\* a running score that every one of the seven dimensions is subtracted from
CombineScores_subtract_all(length, duplicate, quality, format, density, metadata, source) ==
    PERFECT - (PERFECT - length) - (PERFECT - duplicate) - (PERFECT - quality)
        - (PERFECT - format) - (PERFECT - density) - (PERFECT - metadata)
        - (PERFECT - source)

\* the running score of validate_single_content, lines 81-116
CombineScores(length, duplicate, quality, format, density, metadata, source) ==
    LET s1 == PERFECT - (PERFECT - length)
        s2 == s1 - (PERFECT - duplicate)
    IN  Min(Min(Min(Min(Min(s2, quality), format), density), metadata), source)

QualityReport(content_id, quality_level, score, issues) ==
    [kind |-> "QualityReport", content_id |-> content_id,
     quality_level |-> quality_level, score |-> score, issues |-> issues]

NoReport == QualityReport(<<"none", <<>>>>, "none", 0, <<>>)

\* a controller that records the fingerprint of every content it validated
RecordsFingerprint_always(quality_level) == TRUE

\* line 125: the content fingerprint is recorded for future duplicate detection
\* if the quality level is not REJECTED
RecordsFingerprint(quality_level) == quality_level # REJECTED

\* validate_single_content from the results of its seven checks on: whether it
\* raises, the report, the duplication score and the dedup state it leaves.
\* raises tells whether _validate_format raised.
validate_single_content_scored(item, content_hashes, content_fingerprints, raises, len_c, dup_c, qua_c, fmt_c, den_c, met_c, src_c) ==
    LET content == item.content
        scores == [length |-> len_c.score, duplication |-> dup_c.score,
                   quality |-> qua_c.score, format |-> fmt_c.score,
                   density |-> den_c.score, metadata |-> met_c.score,
                   source |-> src_c.score]
        Record(report, duplicate_score, content_hash) ==
            [raised |-> FALSE, report |-> report, duplicate_score |-> duplicate_score,
             scores |-> scores,
             content_hashes |-> content_hashes \cup {content_hash},
             content_fingerprints |->
                 [x \in DOMAIN content_fingerprints \cup {item.id} |->
                     IF x = item.id THEN content_hash ELSE content_fingerprints[x]]]
        Report(score, quality_level, issues, duplicate_score) ==
            IF RecordsFingerprint(quality_level)
            THEN Record(QualityReport(item.id, quality_level, round2(score), issues),
                        duplicate_score, _generate_content_hash(content))
            ELSE [raised |-> FALSE,
                  report |-> QualityReport(item.id, quality_level, round2(score), issues),
                  duplicate_score |-> duplicate_score, scores |-> scores,
                  content_hashes |-> content_hashes,
                  content_fingerprints |-> content_fingerprints]
        Level(score, issues, duplicate_score) ==
            Report(score, _determine_quality_level(score), issues, duplicate_score)
    IN  IF raises
        THEN [raised |-> TRUE, report |-> NoReport, duplicate_score |-> dup_c.score,
              scores |-> scores,
              content_hashes |-> content_hashes,
              content_fingerprints |-> content_fingerprints]
        ELSE Level(CombineScores(len_c.score, dup_c.score, qua_c.score, fmt_c.score,
                                 den_c.score, met_c.score, src_c.score),
                   len_c.issues \o dup_c.issues \o qua_c.issues \o fmt_c.issues
                       \o den_c.issues \o met_c.issues \o src_c.issues,
                   dup_c.score)

\* validate_single_content on a controller with the given dedup state
validate_single_content(item, content_hashes, content_fingerprints, cfg) ==
    validate_single_content_scored(
        item, content_hashes, content_fingerprints,
        _validate_format_raises(item.content),
        _validate_content_length(item.content, cfg),
        _check_duplicates(item.content, content_hashes, content_fingerprints, cfg),
        _analyze_content_quality(item.content),
        _validate_format(item.content, item),
        _check_information_density(item.content),
        _validate_metadata(item),
        _check_source_reliability(item))

\* validate_single_content never awaits, so asyncio.gather runs the validations
\* one after the other in the order of the list.  results is what gather returns,
\* a report or an exception for every item; quality_reports are the reports in it.
validate_content_batch(content_items, content_hashes, content_fingerprints, cfg) ==
    LET RECURSIVE Fold(_, _, _)
        Gathered(first, others) ==
            [Fold(others, first.content_hashes, first.content_fingerprints) EXCEPT
                !.results = <<[raised |-> first.raised, report |-> first.report]>> \o @,
                !.quality_reports = (IF first.raised THEN <<>> ELSE <<first.report>>) \o @]
        Fold(items, hashes, fingerprints) ==
            IF items = <<>>
            THEN [results |-> <<>>, quality_reports |-> <<>>, content_hashes |-> hashes,
                  content_fingerprints |-> fingerprints]
            ELSE Gathered(validate_single_content(Head(items), hashes, fingerprints, cfg),
                          Tail(items))
    IN  Fold(content_items, content_hashes, content_fingerprints)

\* a result that is approved when the quality level is not REJECTED
ValidationResult_by_level(is_valid, quality_score, issues, quality_report) ==
    [kind |-> "ValidationResult", approved |-> quality_report.quality_level # REJECTED,
     quality_score |-> quality_score, issues |-> issues, quality_report |-> quality_report]

\* the two results validate_content returns
ValidationResult(is_valid, quality_score, issues, quality_report) ==
    [kind |-> "ValidationResult", approved |-> is_valid, quality_score |-> quality_score,
     issues |-> issues, quality_report |-> quality_report]

ValidationError ==
    [kind |-> "ValidationError", approved |-> FALSE, quality_score |-> 0,
     issues |-> <<"Validation error">>, quality_report |-> NoReport]

\* str(processed_content) of a ProcessedContent object: the name of the class and
\* every field with its value, metadata['processing_time'] among them, so that no
\* two objects give the same text.  The text is kept as one token that stands
\* for it, numbered by the processing time.
str_ProcessedContent(processing_time) == <<[c |-> "ProcessedContent", n |-> processing_time]>>

\* The dict process_file returns has a key 'status'; a ProcessedContent object
\* has no such field.
IsDict(processed_content) == "status" \in DOMAIN processed_content

\* validate_content(processed_content).  For a ProcessedContent object the dict
\* it validates has the keys content, metadata, content_id, content_type,
\* keywords, entities, summary, topics and quality_score, so no source, no
\* name and none of the metadata fields at its top level.  For a dict with no
\* 'content_id' the id is ''; the content is '' when the dict has neither
\* 'processed_content' nor 'content', and str() of what 'processed_content'
\* holds when that is an object.  On such a text (some hundred characters, some
\* thirty words, most of them different and few of them letters only) the checks
\* of the length, the quality and the format find nothing and the density check
\* finds a low vocabulary diversity.
validate_content(processed_content, content_hashes, content_fingerprints, cfg) ==
    LET object_item == [id |-> processed_content.content_id,
                        content |-> processed_content.processed_content,
                        keys |-> {}, source |-> "", name |-> ""]
        dict_item(content) ==
            [id |-> NoId, content |-> content, keys |-> {}, source |-> "", name |-> ""]
        Result(out) ==
            IF out.raised
            THEN [result |-> ValidationError, content_hashes |-> content_hashes,
                  content_fingerprints |-> content_fingerprints]
            ELSE [result |-> ValidationResult(out.report.score >= cfg.min_quality_score,
                                              out.report.score, out.report.issues,
                                              out.report),
                  content_hashes |-> out.content_hashes,
                  content_fingerprints |-> out.content_fingerprints]
        OfText(item) ==
            validate_single_content_scored(
                item, content_hashes, content_fingerprints, FALSE,
                Check(<<>>, PERFECT),
                _check_duplicates(item.content, content_hashes, content_fingerprints, cfg),
                Check(<<>>, PERFECT), Check(<<>>, PERFECT),
                Check(<<"Low vocabulary diversity">>, 6),
                _validate_metadata(item), _check_source_reliability(item))
    IN  IF ~IsDict(processed_content)
        THEN Result(validate_single_content(object_item, content_hashes,
                                            content_fingerprints, cfg))
        ELSE IF processed_content.status = "error"
        THEN Result(validate_single_content(dict_item(<<>>), content_hashes,
                                            content_fingerprints, cfg))
        ELSE Result(OfText(dict_item(
                 str_ProcessedContent(processed_content.processing_time))))

(***************************************************************************)
(* Content processor: content_processor.py                                 *)
(***************************************************************************)
\* ContentProcessor.__init__: the default of min_content_length
PROCESSOR_MIN_CONTENT_LENGTH == 50
\* the shortest word _extract_keywords keeps, and the number of keywords it returns
KEYWORD_MIN_LETTERS == 4
KEYWORD_LIMIT == 15

RECURSIVE GroupEnd(_, _)
\* the index of the last run of the group of whitespace of t that starts at run i
GroupEnd(t, i) == IF i > Len(t) \/ ~IsSpace(t[i].c) THEN i - 1 ELSE GroupEnd(t, i + 1)

RECURSIVE sub_newlines(_)
\* re.sub(r'\n\s*\n\s*\n', '\n\n', s): in a group of whitespace with three or more
\* newlines, what lies from the first newline to the last becomes two newlines
sub_newlines(t) ==
    LET First(S) == CHOOSE i \in S : \A j \in S : i <= j
        Last(S) == CHOOSE i \in S : \A j \in S : j <= i
        Two(group, first, last) ==
            SubSeq(group, 1, first - 1) \o <<Run("\n", 2)>>
                \o SubSeq(group, last + 1, Len(group))
        Newlines(group, newlines) ==
            IF CountChars(group, {"\n"}) >= 3
            THEN Two(group, First(newlines), Last(newlines))
            ELSE group
        Group(group) == Newlines(group, {i \in DOMAIN group : group[i].c = "\n"})
        Whitespace(e) == Group(SubSeq(t, 1, e)) \o sub_newlines(SubSeq(t, e + 1, Len(t)))
    IN  IF t = <<>> THEN <<>>
        ELSE IF ~IsSpace(t[1].c) THEN <<t[1]>> \o sub_newlines(Tail(t))
        ELSE Whitespace(GroupEnd(t, 1))

\* no control character other than the newline and no '\r' is in the alphabet
_clean_content(content) == strip(sub_blanks(sub_newlines(content)))

\* hashlib.md5(content.encode('utf-8')).hexdigest()[:16]
_generate_content_id(content) == md5_hexdigest(content)

RECURSIVE sorted_by_frequency(_, _)
\* sorted(keys, key=lambda x: word_freq[x], reverse=True): the sort is stable
sorted_by_frequency(keys, word_freq) ==
    IF keys = <<>> THEN <<>>
    ELSE LET best == CHOOSE i \in DOMAIN keys :
                        /\ \A j \in DOMAIN keys : word_freq[keys[j]] <= word_freq[keys[i]]
                        /\ \A j \in 1..(i - 1) : word_freq[keys[j]] < word_freq[keys[i]]
         IN  <<keys[best]>>
             \o sorted_by_frequency(SubSeq(keys, 1, best - 1)
                                    \o SubSeq(keys, best + 1, Len(keys)), word_freq)

\* The branch taken when the spaCy model is not loaded (nlp_available False).
\* r'\b[A-Za-z]{4,}\b' finds the words of four letters or more; no stop word of
\* that length is over the alphabet.
_extract_keywords(content) ==
    LET RECURSIVE InOrder(_, _, _)
        InOrder(words, first_ones, i) ==
            IF i > Len(words) THEN <<>>
            ELSE (IF i \in first_ones THEN <<words[i]>> ELSE <<>>)
                 \o InOrder(words, first_ones, i + 1)
        Limit(keywords) == SubSeq(keywords, 1, Min(Len(keywords), KEYWORD_LIMIT))
        Kept(words, kept) ==
            Limit(sorted_by_frequency(
                InOrder(words,
                        {i \in kept : \A j \in kept : j < i => words[j] # words[i]}, 1),
                [w \in {words[i] : i \in kept} |->
                    Cardinality({i \in kept : words[i] = w})]))
        Words(words) ==
            Kept(words, {i \in 1..Len(words) : str_len(words[i]) >= KEYWORD_MIN_LETTERS})
        Found(found) == Words([i \in 1..Len(found) |-> lower(found[i])])
    IN  Found(split(content))

\* no URL, e-mail address or date is over the alphabet (and none of the topic words)
_extract_entities(content) == <<>>

_extract_topics(content, keywords) == <<>>

\* item.path is the path split at '/', <<>> when the dict has none; no link, URL
\* or tag is over the alphabet
_find_relationships(content, item) ==
    LET folder == IF item.path = <<>> THEN <<>> ELSE SubSeq(item.path, 1, Len(item.path) - 1)
    IN  (IF folder # <<>> THEN <<[type |-> "belongs_to_folder", target |-> folder]>>
         ELSE <<>>)
        \o (IF item.source # "" THEN <<[type |-> "created_by", target |-> <<item.source>>]>>
            ELSE <<>>)

\* the keys of a collected dict that have a value
ItemKeys(item) ==
    item.times \cup (IF item.source # "" THEN {"source"} ELSE {})
               \cup (IF item.name # "" THEN {"name"} ELSE {})
               \cup (IF item.path # <<>> THEN {"path"} ELSE {})
               \cup (IF item.title # <<>> THEN {"title"} ELSE {})

\* the keys copied from the dict; the computed entries (word_count, ...) are not
\* read by any check
_extract_metadata(item, content) ==
    [keys |-> ItemKeys(item) \cap {"source", "name", "path", "size", "created_time",
                                   "modified_time", "collection_time"},
     source |-> item.source, name |-> item.name]

ProcessedContent(content_id, original_content, processed_content, keywords, entities, relationships, topics, metadata) ==
    [content_id |-> content_id, original_content |-> original_content,
     processed_content |-> processed_content, keywords |-> keywords,
     entities |-> entities, relationships |-> relationships, topics |-> topics,
     metadata |-> metadata]

NoContent == ProcessedContent(<<"none", <<>>>>, <<>>, <<>>, <<>>, <<>>, <<>>, <<>>,
                              [keys |-> {}, source |-> "", name |-> ""])

\* None has no strip(): AttributeError
process_single_content_raises(content_item) == content_item.content = None

\* item.id is <<"none", <<>>>> when the dict has no id or an empty one
process_single_content(content_item) ==
    LET Processed(content_text, keywords) ==
            ProcessedContent(IF content_item.id # <<"none", <<>>>> THEN content_item.id
                             ELSE _generate_content_id(content_text),
                             content_text, _clean_content(content_text), keywords,
                             _extract_entities(content_text),
                             _find_relationships(content_text, content_item),
                             _extract_topics(content_text, keywords),
                             _extract_metadata(content_item, content_text))
        Text(content_text) == Processed(content_text, _extract_keywords(content_text))
    IN  Text(IF str_len(strip(content_item.content)) < PROCESSOR_MIN_CONTENT_LENGTH
             THEN concat(concat(content_item.title, <<Run(" ", 1)>>), content_item.content)
             ELSE content_item.content)

\* the batch that gives up at the first item that raises
process_content_batch_until_raise(content_items) ==
    LET RECURSIVE Fold(_)
        Fold(items) ==
            IF items = <<>> \/ process_single_content_raises(Head(items)) THEN <<>>
            ELSE <<process_single_content(Head(items))>> \o Fold(Tail(items))
    IN  Fold(content_items)

\* asyncio.gather(..., return_exceptions=True): the results that are
\* ProcessedContent objects, in the order of the items
process_content_batch(content_items) ==
    LET RECURSIVE Fold(_)
        Fold(items) ==
            IF items = <<>> THEN <<>>
            ELSE (IF process_single_content_raises(Head(items)) THEN <<>>
                  ELSE <<process_single_content(Head(items))>>) \o Fold(Tail(items))
    IN  Fold(content_items)

\* process_file(file_path): file.content is the text of the file, None when it
\* cannot be read; the dict built for the file has the keys content, source_path,
\* filename and file_type
process_file(file) ==
    IF file.content = None
    THEN [status |-> "error", processed_content |-> NoContent]
    ELSE [status |-> "success",
          processed_content |->
              process_single_content([id |-> <<"none", <<>>>>, content |-> file.content,
                                      title |-> <<>>, source |-> "", name |-> "",
                                      path |-> <<>>, times |-> {}])]

(***************************************************************************)
(* Storage manager: storage_manager.py.  A table is the sequence of its    *)
(* rows in rowid order; content_files maps a content id to the JSON file   *)
(* written for it.                                                         *)
(***************************************************************************)
\* StorageManager.__init__ on an empty storage path
EmptyStorage ==
    [content_files |-> <<>>, content_table |-> <<>>, keywords_table |-> <<>>,
     entities_table |-> <<>>, relationships_table |-> <<>>, topics_table |-> <<>>,
     quality_issues_table |-> <<>>]

\* the rows of the five child tables
ChildRows(content_id, values) ==
    [i \in 1..Len(values) |-> [content_id |-> content_id, value |-> values[i]]]

\* INSERT OR REPLACE INTO content: id is the primary key
insert_or_replace(table, row) ==
    Append(SelectSeq(table, LAMBDA r : r.id # row.id), row)

\* no row is deleted
delete_related_nothing(table, content_id) == table

\* DELETE FROM <table> WHERE content_id = ?
delete_related(table, content_id) ==
    SelectSeq(table, LAMBDA r : r.content_id # content_id)

\* quality_report.quality_score and quality_report.quality_report.quality_level:
\* the result of validate_content has both, a QualityReport has no quality_score
\* and the result of a failed validation no quality_report (AttributeError)
ReadsQuality(quality_report) == quality_report.kind = "ValidationResult"

StoreResult(success, chunks, size_bytes) ==
    [success |-> success, chunks |-> chunks, size_bytes |-> size_bytes]

\* store_processed_content on the storage db.  io is what the disk does: "ok",
\* "file_error" (the content file cannot be written) or "db_error" (sqlite
\* raises; nothing of the open transaction is committed).
store_processed_content(processed_content, quality_report, db, io) ==
    LET content_id == processed_content.content_id
        written == [db EXCEPT !.content_files =
                       [x \in DOMAIN @ \cup {content_id} |->
                           IF x = content_id
                           THEN [original_content |-> processed_content.original_content,
                                 processed_content |-> processed_content.processed_content]
                           ELSE @[x]]]
        row == [id |-> content_id, source |-> processed_content.metadata.source,
                quality_score |-> quality_report.quality_score,
                quality_level |-> quality_report.quality_report.quality_level]
        Replace(table, values) ==
            delete_related(table, content_id) \o ChildRows(content_id, values)
        failure == StoreResult(FALSE, <<>>, 0)
    IN  IF io = "file_error" THEN [result |-> failure, db |-> db]
        ELSE IF ~ReadsQuality(quality_report) \/ io = "db_error"
        THEN [result |-> failure, db |-> written]
        ELSE [result |-> StoreResult(TRUE, processed_content.topics,
                                     str_len(processed_content.processed_content)),
              db |-> [written EXCEPT
                  !.content_table = insert_or_replace(@, row),
                  !.keywords_table = Replace(@, processed_content.keywords),
                  !.entities_table = Replace(@, processed_content.entities),
                  !.relationships_table = Replace(@, processed_content.relationships),
                  !.topics_table = Replace(@, processed_content.topics),
                  !.quality_issues_table = Replace(@, quality_report.issues)]]

\* retrieve_content(content_id) on the storage db: None when the content table
\* has no row of the id, else the row joined with the content file the row
\* names ({} when there is none) and with the rows of the child tables
retrieve_content(db, content_id) ==
    LET Values(table) ==
            LET rows == SelectSeq(table, LAMBDA r : r.content_id = content_id)
            IN  [i \in DOMAIN rows |-> rows[i].value]
        content_rows == SelectSeq(db.content_table, LAMBDA r : r.id = content_id)
        content_row == content_rows[1]
        content_data == IF content_id \in DOMAIN db.content_files
                        THEN db.content_files[content_id]
                        ELSE [original_content |-> <<>>, processed_content |-> <<>>]
    IN  IF content_rows = <<>> THEN [found |-> FALSE]
        ELSE [found |-> TRUE, id |-> content_id, source |-> content_row.source,
              content |-> content_data.processed_content,
              original_content |-> content_data.original_content,
              keywords |-> Values(db.keywords_table),
              entities |-> Values(db.entities_table),
              relationships |-> Values(db.relationships_table),
              topics |-> Values(db.topics_table),
              quality_score |-> content_row.quality_score,
              quality_level |-> content_row.quality_level,
              quality_issues |-> Values(db.quality_issues_table)]

\* cleanup_storage: the default of quality_threshold, and the score below which
\* an old row is deleted
DEFAULT_QUALITY_THRESHOLD == 2
OLD_QUALITY_THRESHOLD == 5

\* a cleanup that deletes the rows of the content table only
delete_content_only(db, to_delete) ==
    [db EXCEPT !.content_table = SelectSeq(@, LAMBDA r : r.id \notin to_delete)]

\* the six DELETE statements of cleanup_storage, for every id of to_delete
delete_content(db, to_delete) ==
    LET Others(table) == SelectSeq(table, LAMBDA r : r.content_id \notin to_delete)
    IN  [db EXCEPT !.content_table = SelectSeq(@, LAMBDA r : r.id \notin to_delete),
                   !.keywords_table = Others(@),
                   !.entities_table = Others(@),
                   !.relationships_table = Others(@),
                   !.topics_table = Others(@),
                   !.quality_issues_table = Others(@)]

\* os.remove of the content files of the ids of removed
remove_files(db, removed) ==
    [db EXCEPT !.content_files = [x \in DOMAIN @ \ removed |-> @[x]]]

\* cleanup_storage(days_old, quality_threshold) on the storage db.  old tells
\* whether the rows are older than days_old, every row being stored at about the
\* same time.  io is what the disk does: "ok", "file_error" (os.remove raises on
\* the last file to remove) or "db_error" (sqlite raises).  On an exception
\* nothing of the open transaction is committed, the files removed before it
\* stay removed, and the call returns 0.
cleanup_storage(quality_threshold, old, db, io) ==
    LET rows == SelectSeq(db.content_table,
                          LAMBDA r : \/ r.quality_score < quality_threshold
                                     \/ old /\ r.quality_score < OLD_QUALITY_THRESHOLD)
        to_delete == {rows[i].id : i \in DOMAIN rows}
        removed_before == {rows[i].id : i \in 1..(Len(rows) - 1)}
    IN  IF io = "db_error" THEN [result |-> 0, deleted |-> {}, db |-> db]
        ELSE IF io = "file_error" /\ rows # <<>>
        THEN [result |-> 0, deleted |-> {}, db |-> remove_files(db, removed_before)]
        ELSE [result |-> Len(rows), deleted |-> to_delete,
              db |-> remove_files(delete_content(db, to_delete), to_delete)]

(***************************************************************************)
(* Ingestion coordinator: ingestion_coordinator.py                         *)
(***************************************************************************)
\* _load_config: the default of processing.batch_size
DEFAULT_BATCH_SIZE == 10

\* the entries of the configuration that the pipeline reads
Config(file_system, digital_library, cloud_drives, applications, batch_size, parallel_processing, min_quality_score) ==
    [file_system |-> [enabled |-> file_system],
     digital_library |-> [enabled |-> digital_library],
     cloud_drives |-> [enabled |-> cloud_drives],
     applications |-> [enabled |-> applications],
     processing |-> [batch_size |-> batch_size,
                     parallel_processing |-> parallel_processing],
     quality_control |-> QualityConfig(min_quality_score)]

\* _load_config with no configuration file
_load_config ==
    Config(TRUE, TRUE, TRUE, TRUE, DEFAULT_BATCH_SIZE, TRUE, DEFAULT_MIN_QUALITY_SCORE)

\* dict.update: the keys of e are set in d
dict_update(d, e) ==
    [key \in DOMAIN d \cup DOMAIN e |-> IF key \in DOMAIN e THEN e[key] ELSE d[key]]

\* dict.get(key, {})
get(d, key) == IF key \in DOMAIN d THEN d[key] ELSE <<>>

\* Values of a section of a configuration that are no dicts: a path, None and a
\* number.  A dict is a record of its keys, {} is <<>>.
Path(text) == [str |-> text]
NoneValue == [none |-> TRUE]
Number(n) == [int |-> n]
IsStr(value) == DOMAIN value = {"str"}
HasGet(value) == DOMAIN value \notin {{"str"}, {"none"}, {"int"}}

\* what a storage section gives as its storage_path when the directories of it
\* cannot be made; any other section gives the storage the coordinator has
Unwritable == [storage_path |-> "unwritable"]

\* the constructors of the four components update_config builds anew, by whether
\* they raise on the section handed to them: Path(base_path) takes a str only,
\* the three others call config.get, and StorageManager makes its directories
FileSystemCollector_raises(base_path) == ~IsStr(base_path)
ContentProcessor_raises(section) == ~HasGet(section)
QualityController_raises(section) == ~HasGet(section)
StorageManager_raises(section) == ~HasGet(section) \/ section = Unwritable

\* QualityController.__init__: the settings read from its section
QualityController_config(section) ==
    [key \in DOMAIN QualityConfig(DEFAULT_MIN_QUALITY_SCORE) |->
        get_or(section, key, QualityConfig(DEFAULT_MIN_QUALITY_SCORE)[key])]

\* IngestionCoordinator.__init__: each component field holds its first instance
InitialComponents ==
    [file_collector |-> 1, content_processor |-> 1, quality_controller |-> 1,
     storage_manager |-> 1]

\* update_config(new_config): the result, the configuration and the component
\* fields after the call.  reached is the number of constructors that returned
\* before the call ended.
update_config(new_config, cfg, comps, quality_cfg, hashes, fingerprints) ==
    LET required_sections == {"file_system", "processing", "storage"}
        updated == dict_update(cfg, new_config)
        reached ==
            IF FileSystemCollector_raises(get(updated, "file_system")) THEN 0
            ELSE IF ContentProcessor_raises(get(updated, "processing")) THEN 1
            ELSE IF QualityController_raises(get(updated, "quality_control")) THEN 2
            ELSE IF StorageManager_raises(get(updated, "storage")) THEN 3
            ELSE 4
        New(field, n) == IF reached >= n THEN comps[field] + 1 ELSE comps[field]
    IN  IF ~HasGet(new_config) \/ ~(required_sections \subseteq DOMAIN new_config)
        THEN [result |-> FALSE, config |-> cfg, components |-> comps,
              quality_config |-> quality_cfg, content_hashes |-> hashes,
              content_fingerprints |-> fingerprints]
        ELSE [result |-> reached = 4, config |-> updated,
              components |->
                  [file_collector |-> New("file_collector", 1),
                   content_processor |-> New("content_processor", 2),
                   quality_controller |-> New("quality_controller", 3),
                   storage_manager |-> New("storage_manager", 4)],
              quality_config |->
                  IF reached >= 3
                  THEN QualityController_config(get(updated, "quality_control"))
                  ELSE quality_cfg,
              content_hashes |-> IF reached >= 3 THEN {} ELSE hashes,
              content_fingerprints |-> IF reached >= 3 THEN <<>> ELSE fingerprints]

\* IngestionCoordinator.__init__: self.stats.  A time is <<t>>, None is <<>>.
InitialStats ==
    [start_time |-> <<>>, end_time |-> <<>>, total_collected |-> 0,
     total_processed |-> 0, total_stored |-> 0, total_rejected |-> 0,
     collection_stats |-> <<>>, quality_stats |-> <<>>, errors |-> <<>>]

\* an entry of stats['errors']: where the failure was caught, the batch number
\* or 0, and the exception
Error(scope, index, error) == [scope |-> scope, index |-> index, error |-> error]

\* d[key] = value
Put(d, key, value) == [x \in DOMAIN d \cup {key} |-> IF x = key THEN value ELSE d[x]]

\* the outcome of a collector's coroutine: the list it returns, or an exception
Collected(items) == [raised |-> FALSE, items |-> items]
CollectorRaised == [raised |-> TRUE, items |-> <<>>]

\* FileSystemCollector has no scan_directories and DigitalLibraryCollector no
\* collect_digital_books: building the task list raises AttributeError when one
\* of the two sources is enabled.  results[source] is the outcome of the
\* coroutine of the source.
_collect_all_content(config, stats, results) ==
    LET collection_tasks == SelectSeq(<<"cloud_drives", "applications">>,
                                      LAMBDA source : config[source].enabled)
        RECURSIVE Gathered(_, _, _)
        Gathered(tasks, all_content, st) ==
            IF tasks = <<>>
            THEN [raised |-> FALSE, all_content |-> all_content, stats |-> st]
            ELSE LET source_name == Head(tasks)
                     result == results[source_name]
                 IN  IF result.raised
                     THEN Gathered(Tail(tasks), all_content,
                              [st EXCEPT !.errors = Append(@, Error(source_name, 0, "Exception")),
                                         !.collection_stats = Put(@, source_name, 0)])
                     ELSE Gathered(Tail(tasks), all_content \o result.items,
                              [st EXCEPT !.collection_stats =
                                             Put(@, source_name, Len(result.items))])
    IN  IF config.file_system.enabled \/ config.digital_library.enabled
        THEN [raised |-> TRUE, all_content |-> <<>>, stats |-> stats]
        ELSE Gathered(collection_tasks, <<>>, stats)

\* range(0, n, 0) raises ValueError, outside the try.  batches are the calls of
\* process_content_batch: the chunk given and the list returned.
_process_content_batch(config, stats, content_items) ==
    LET batch_size == config.processing.batch_size
        n == Len(content_items)
        RECURSIVE Loop(_, _, _, _)
        Parallel(i, processed_items, st, batches, batch, batch_results) ==
            Loop(i + batch_size, processed_items \o batch_results, st,
                 Append(batches, [batch |-> batch, batch_results |-> batch_results]))
        Sequential(i, processed_items, st, batches, batch) ==
            IF \E k \in DOMAIN batch : process_single_content_raises(batch[k])
            THEN Loop(i + batch_size, processed_items,
                      [st EXCEPT !.errors =
                          Append(@, Error("Processing batch", (i \div batch_size) + 1,
                                          "AttributeError"))], batches)
            ELSE Loop(i + batch_size,
                      processed_items
                          \o [k \in DOMAIN batch |-> process_single_content(batch[k])],
                      st, batches)
        Batch(i, processed_items, st, batches, batch) ==
            IF config.processing.parallel_processing
            THEN Parallel(i, processed_items, st, batches, batch,
                          process_content_batch(batch))
            ELSE Sequential(i, processed_items, st, batches, batch)
        Loop(i, processed_items, st, batches) ==
            IF i >= n
            THEN [raised |-> FALSE, processed_items |-> processed_items, stats |-> st,
                  batches |-> batches]
            ELSE Batch(i, processed_items, st, batches,
                       SubSeq(content_items, i + 1, Min(i + batch_size, n)))
    IN  IF batch_size = 0
        THEN [raised |-> TRUE, processed_items |-> <<>>, stats |-> stats, batches |-> <<>>]
        ELSE IF batch_size < 0
        THEN [raised |-> FALSE, processed_items |-> <<>>, stats |-> stats,
              batches |-> <<>>]
        ELSE Loop(0, <<>>, stats, <<>>)

\* {'id': item.content_id, 'content': item.processed_content, **item.metadata}
QualityItem(item) ==
    [id |-> item.content_id, content |-> item.processed_content,
     keys |-> item.metadata.keys, source |-> item.metadata.source,
     name |-> item.metadata.name]

\* validate_content_batch does not raise, so the except branch is never taken
_validate_content_quality(stats, processed_content, content_hashes, content_fingerprints, cfg) ==
    LET Levels(reports) ==
            [level \in {reports[i].quality_level : i \in DOMAIN reports} |->
                Cardinality({i \in DOMAIN reports : reports[i].quality_level = level})]
        Validated(out) ==
            [quality_reports |-> out.quality_reports, results |-> out.results,
             stats |-> [stats EXCEPT !.quality_stats = Levels(out.quality_reports)],
             content_hashes |-> out.content_hashes,
             content_fingerprints |-> out.content_fingerprints]
    IN  Validated(validate_content_batch(
            [i \in DOMAIN processed_content |-> QualityItem(processed_content[i])],
            content_hashes, content_fingerprints, cfg))

\* {report.content_id: report for report in quality_reports}: of the reports
\* with one id the last one stays
quality_map(quality_reports) ==
    [id \in {quality_reports[i].content_id : i \in DOMAIN quality_reports} |->
        LET last == CHOOSE i \in DOMAIN quality_reports :
                        /\ quality_reports[i].content_id = id
                        /\ \A j \in DOMAIN quality_reports :
                               quality_reports[j].content_id = id => j <= i
        IN  quality_reports[last]]

RECURSIVE Ascending(_)
\* the numbers of the set S in increasing order
Ascending(S) ==
    IF S = {} THEN <<>>
    ELSE LET least == CHOOSE x \in S : \A y \in S : x <= y
         IN  <<least>> \o Ascending(S \ {least})

\* the positions in processed_content of the items _filter_by_quality keeps
ApprovedIndices(processed_content, quality_reports) ==
    LET Approved(map) ==
            Ascending({i \in DOMAIN processed_content :
                /\ processed_content[i].content_id \in DOMAIN map
                /\ map[processed_content[i].content_id].quality_level # REJECTED})
    IN  Approved(quality_map(quality_reports))

_filter_by_quality(processed_content, quality_reports) ==
    LET Kept(kept) == [k \in DOMAIN kept |-> processed_content[kept[k]]]
    IN  Kept(ApprovedIndices(processed_content, quality_reports))

\* bool(success): store_processed_content returns a dict, true unless empty
Truthy(success) == DOMAIN success # {}

\* store_processed_content catches what it raises, so the except branch is never
\* taken.  store_calls are the calls of store_processed_content: the item and the
\* report passed and the dict returned.
_store_approved_content(stats, approved_content, quality_reports, db, io) ==
    LET RECURSIVE Loop(_, _, _, _, _)
        Stored(map, k, stored_count, store_calls, content, quality_report, out) ==
            Loop(map, k + 1,
                 IF Truthy(out.result) THEN stored_count + 1 ELSE stored_count,
                 out.db,
                 Append(store_calls,
                        [processed_content |-> content, quality_report |-> quality_report,
                         result |-> out.result]))
        Store(map, k, stored_count, d, store_calls, content, quality_report) ==
            Stored(map, k, stored_count, store_calls, content, quality_report,
                   store_processed_content(content, quality_report, d, io))
        Content(map, k, stored_count, d, store_calls, content) ==
            IF content.content_id \in DOMAIN map
            THEN Store(map, k, stored_count, d, store_calls, content,
                       map[content.content_id])
            ELSE Loop(map, k + 1, stored_count, d, store_calls)
        Loop(map, k, stored_count, d, store_calls) ==
            IF k > Len(approved_content)
            THEN [stored_count |-> stored_count, db |-> d, stats |-> stats,
                  store_calls |-> store_calls]
            ELSE Content(map, k, stored_count, d, store_calls, approved_content[k])
    IN  Loop(quality_map(quality_reports), 1, 0, db, <<>>)

\* get_content_statistics catches what it raises; writing the report file raises
\* when the disk fails
_generate_ingestion_report_raises(report_io) == report_io # "ok"

\* the handler that lets the exception go on to the caller
run_full_ingestion_reraise(stats, e, now) ==
    [raised |-> TRUE, stats |-> [stats EXCEPT !.errors = Append(@, Error("pipeline", 0, e))]]

\* the except branch of run_full_ingestion
run_full_ingestion_except(stats, e, now) ==
    [raised |-> FALSE,
     stats |-> [stats EXCEPT !.errors = Append(@, Error("pipeline", 0, e)),
                             !.end_time = <<now>>]]

\* run_full_ingestion on a coordinator with the given configuration, statistics,
\* dedup state and storage.  results are the outcomes of the collectors, io and
\* report_io what the disk does, now the time of the call.  phases is the number
\* of phases completed.
run_full_ingestion(config, stats, content_hashes, content_fingerprints, db, results, io, report_io, now) ==
    LET aborted == [phases |-> 0, content_hashes |-> content_hashes,
                    content_fingerprints |-> content_fingerprints, db |-> db,
                    collected_content |-> <<>>, batches |-> <<>>,
                    processed_content |-> <<>>, results |-> <<>>,
                    quality_reports |-> <<>>, approved_content |-> <<>>,
                    store_calls |-> <<>>]
        Phase5(run, st) ==
            IF _generate_ingestion_report_raises(report_io)
            THEN [run |-> run, out |-> run_full_ingestion_except(st, "OSError", now + 2)]
            ELSE [run |-> run, out |-> [raised |-> FALSE, stats |-> st]]
        Stored(p1, p2, p3, approved_content, p4) ==
            Phase5([phases |-> 4, content_hashes |-> p3.content_hashes,
                    content_fingerprints |-> p3.content_fingerprints, db |-> p4.db,
                    collected_content |-> p1.all_content, batches |-> p2.batches,
                    processed_content |-> p2.processed_items, results |-> p3.results,
                    quality_reports |-> p3.quality_reports,
                    approved_content |-> approved_content,
                    store_calls |-> p4.store_calls],
                   [p4.stats EXCEPT !.total_stored = p4.stored_count,
                                    !.end_time = <<now + 1>>])
        Phase4(p1, p2, p3, approved_content) ==
            Stored(p1, p2, p3, approved_content,
                   _store_approved_content(
                       [p3.stats EXCEPT !.total_rejected =
                           Len(p2.processed_items) - Len(approved_content)],
                       approved_content, p3.quality_reports, db, io))
        Validated(p1, p2, p3) ==
            Phase4(p1, p2, p3, _filter_by_quality(p2.processed_items, p3.quality_reports))
        Phase3(p1, p2) ==
            IF p2.raised
            THEN [run |-> [aborted EXCEPT !.phases = 1,
                                          !.collected_content = p1.all_content],
                  out |-> run_full_ingestion_except(p2.stats, "ValueError", now + 1)]
            ELSE Validated(p1, p2,
                     _validate_content_quality(
                         [p2.stats EXCEPT !.total_processed = Len(p2.processed_items)],
                         p2.processed_items, content_hashes, content_fingerprints,
                         config.quality_control))
        Phase2(p1) ==
            IF p1.raised
            THEN [run |-> aborted,
                  out |-> run_full_ingestion_except(p1.stats, "AttributeError", now + 1)]
            ELSE Phase3(p1, _process_content_batch(config,
                                [p1.stats EXCEPT !.total_collected = Len(p1.all_content)],
                                p1.all_content))
    IN  Phase2(_collect_all_content(config, [stats EXCEPT !.start_time = <<now>>],
                                    results))

\* a job record: the entries of job_info that change
JobInfo(job_id, status, progress_percentage, processed_files, failed_files, documents_created, chunks_created, storage_used_bytes) ==
    [job_id |-> job_id, status |-> status, progress_percentage |-> progress_percentage,
     processed_files |-> processed_files, failed_files |-> failed_files,
     documents_created |-> documents_created, chunks_created |-> chunks_created,
     storage_used_bytes |-> storage_used_bytes]

\* a del that leaves the dict as it is
Del_nothing(d, key) == d

\* del d[key]
Del(d, key) == [x \in DOMAIN d \ {key} |-> d[x]]

\* process_single_file(file_path, job_id) with no metadata.  The job is put in
\* active_jobs first and is moved to completed_jobs on both ways out.  stored
\* tells whether store_processed_content was called; validation is what
\* validate_content returned.
process_single_file(file, job_id, completed_jobs, content_hashes, content_fingerprints, cfg, db, io) ==
    LET Failed(progress_percentage) ==
            JobInfo(job_id, "failed", progress_percentage, 0, 1, 0, 0, 0)
        Raised(job_info, hashes, fingerprints, validation, processed_content) ==
            [raised |-> TRUE, job_info |-> job_info,
             completed_jobs |-> Put(completed_jobs, job_id, job_info),
             content_hashes |-> hashes, content_fingerprints |-> fingerprints,
             db |-> db, stored |-> FALSE, validation |-> validation,
             processed_content |-> processed_content]
        Completed(processed_content, validated, storage, job_info) ==
            [raised |-> FALSE, job_info |-> job_info,
             completed_jobs |-> Put(completed_jobs, job_id, job_info),
             content_hashes |-> validated.content_hashes,
             content_fingerprints |-> validated.content_fingerprints,
             db |-> storage.db, stored |-> TRUE, validation |-> validated.result,
             processed_content |-> processed_content]
        Stored(processed_content, validated, storage) ==
            Completed(processed_content, validated, storage,
                      JobInfo(job_id, "completed", 100, 1, 0, 1,
                              Len(storage.result.chunks), storage.result.size_bytes))
        Validated(processed_content, validated) ==
            IF ~validated.result.approved
            THEN Raised(Failed(50), validated.content_hashes,
                        validated.content_fingerprints, validated.result,
                        processed_content)
            ELSE Stored(processed_content, validated,
                        store_processed_content(processed_content, validated.result,
                                                db, io))
        Processed(process_result) ==
            IF process_result.status = "error"
            THEN Raised(Failed(0), content_hashes, content_fingerprints, ValidationError,
                        NoContent)
            ELSE Validated(process_result.processed_content,
                           validate_content(process_result.processed_content,
                                            content_hashes, content_fingerprints, cfg))
    IN  Processed(process_file(file))

\* store_processed_content(processed_content, ...) on the dict process_file
\* returns: the dict has no attribute content_id, so AttributeError is raised in
\* the try block and again in the handler, which formats the same attribute, and
\* leaves the method
store_processed_content_raises(processed_content) == IsDict(processed_content)

\* what process_batch_files and sync_cloud_drives keep while they go through
\* their files; outcomes tells, file by file, how the file ended
InitialCounts(content_hashes, content_fingerprints, db) ==
    [processed_count |-> 0, failed_files |-> 0, total_chunks |-> 0, total_size |-> 0,
     content_hashes |-> content_hashes, content_fingerprints |-> content_fingerprints,
     db |-> db, outcomes |-> <<>>]

\* a file that raised before it was validated
FileRaised(st, error) ==
    [st EXCEPT !.failed_files = @ + 1, !.outcomes = Append(@, error)]

\* a body of the loop that counts the file neither as processed nor as failed
handle_processed_file_uncounted(st, processed_content, cfg, io) ==
    [st EXCEPT !.outcomes = Append(@, "skipped")]

\* a body of the loop that counts an approved file as processed before the call
\* of store_processed_content, whether the call stores it or raises
handle_processed_file_counted_before_store(st, processed_content, cfg, io) ==
    LET validated == validate_content(processed_content, st.content_hashes,
                                      st.content_fingerprints, cfg)
        seen == [st EXCEPT !.content_hashes = validated.content_hashes,
                           !.content_fingerprints = validated.content_fingerprints]
    IN  IF ~validated.result.approved
        THEN [seen EXCEPT !.failed_files = @ + 1,
                          !.outcomes = Append(@, "Quality check failed")]
        ELSE [seen EXCEPT !.processed_count = @ + 1,
                          !.outcomes = Append(@, "AttributeError")]

\* the body of the loop of process_batch_files and of sync_cloud_drives from
\* validate_content on: what process_file returned is validated and, when
\* approved, passed to store_processed_content
handle_processed_file(st, processed_content, cfg, io) ==
    LET Failed(validated, outcome) ==
            [st EXCEPT !.failed_files = @ + 1,
                       !.content_hashes = validated.content_hashes,
                       !.content_fingerprints = validated.content_fingerprints,
                       !.outcomes = Append(@, outcome)]
        Stored(validated, storage) ==
            [st EXCEPT !.processed_count = @ + 1,
                       !.total_chunks = @ + Len(storage.result.chunks),
                       !.total_size = @ + storage.result.size_bytes,
                       !.content_hashes = validated.content_hashes,
                       !.content_fingerprints = validated.content_fingerprints,
                       !.db = storage.db,
                       !.outcomes = Append(@, "stored")]
        Validated(validated) ==
            IF ~validated.result.approved THEN Failed(validated, "Quality check failed")
            ELSE IF store_processed_content_raises(processed_content)
            THEN Failed(validated, "AttributeError")
            ELSE Stored(validated,
                        store_processed_content(processed_content, validated.result,
                                                st.db, io))
    IN  Validated(validate_content(processed_content, st.content_hashes,
                                   st.content_fingerprints, cfg))

\* the dict process_file returns, with the metadata['processing_time'] of the
\* object in it
ProcessResult(process_result, processing_time) ==
    [status |-> process_result.status,
     processed_content |-> process_result.processed_content,
     processing_time |-> processing_time]

\* process_batch_files(file_paths, job_id) with no metadata, called at the time
\* now.  Nothing in the outer try block raises.
process_batch_files(file_paths, job_id, completed_jobs, content_hashes, content_fingerprints, cfg, db, io, now) ==
    LET n == Len(file_paths)
        Ended(st, job_info) ==
            [raised |-> FALSE, job_info |-> job_info,
             completed_jobs |-> Put(completed_jobs, job_id, job_info),
             content_hashes |-> st.content_hashes,
             content_fingerprints |-> st.content_fingerprints,
             db |-> st.db, outcomes |-> st.outcomes]
        Final(st) ==
            Ended(st, JobInfo(job_id,
                              IF st.failed_files = 0 THEN "completed"
                              ELSE IF st.processed_count > 0 THEN "completed"
                              ELSE "failed",
                              IF n = 0 THEN 0 ELSE 100,
                              st.processed_count, st.failed_files, st.processed_count,
                              st.total_chunks, st.total_size))
        RECURSIVE Loop(_, _)
        Loop(i, st) ==
            IF i > n THEN Final(st)
            ELSE Loop(i + 1,
                      handle_processed_file(
                          st, ProcessResult(process_file(file_paths[i]), now + i - 1),
                          cfg, io))
    IN  Loop(1, InitialCounts(content_hashes, content_fingerprints, db))

\* file_info['local_path']: no dict of the cloud collectors has the key
HasLocalPath(file_info) == "local_path" \in DOMAIN file_info

\* del d[key] raises KeyError when d has no key
del_raises(d, key) == key \notin DOMAIN d

\* sync_cloud_drives(job_id) from the return of collect_all_drives on, called at
\* the time now; result is what collect_all_drives did.  The job was put in
\* active_jobs before.  When the job is no longer in active_jobs, the del
\* raises KeyError in the try block and again in the handler, where it takes
\* the place of the exception handled.  error is what the call raises, "none"
\* when it returns.
sync_cloud_drives(result, job_id, active_jobs, completed_jobs, content_hashes, content_fingerprints, cfg, db, io, now) ==
    LET cloud_files == result.items
        n == Len(cloud_files)
        Failed(st, progress_percentage) ==
            JobInfo(job_id, "failed", progress_percentage, st.processed_count,
                    st.failed_files, st.processed_count, st.total_chunks, st.total_size)
        Ended(st, error, job_info) ==
            [raised |-> error # "none", error |-> error, job_info |-> job_info,
             active_jobs |-> Del(active_jobs, job_id),
             completed_jobs |-> Put(completed_jobs, job_id, job_info),
             content_hashes |-> st.content_hashes,
             content_fingerprints |-> st.content_fingerprints,
             db |-> st.db, outcomes |-> st.outcomes, total_files |-> n]
        Final(st) ==
            IF del_raises(active_jobs, job_id)
            THEN Ended(st, "KeyError", Failed(st, IF n = 0 THEN 25 ELSE 100))
            ELSE Ended(st, "none",
                       JobInfo(job_id,
                               IF st.processed_count > 0 THEN "completed" ELSE "failed",
                               IF n = 0 THEN 25 ELSE 100,
                               st.processed_count, st.failed_files, st.processed_count,
                               st.total_chunks, st.total_size))
        RECURSIVE Loop(_, _)
        Loop(i, st) ==
            IF i > n THEN Final(st)
            ELSE IF ~HasLocalPath(cloud_files[i])
            THEN Loop(i + 1, FileRaised(st, "KeyError"))
            ELSE Loop(i + 1,
                      handle_processed_file(
                          st, ProcessResult(process_file(cloud_files[i].local_path),
                                            now + i - 1),
                          cfg, io))
    IN  IF result.raised
        THEN Ended(InitialCounts(content_hashes, content_fingerprints, db),
                   IF del_raises(active_jobs, job_id) THEN "KeyError" ELSE "Exception",
                   Failed(InitialCounts(content_hashes, content_fingerprints, db), 0))
        ELSE Loop(1, InitialCounts(content_hashes, content_fingerprints, db))

(***************************************************************************)
(* The texts and the dicts of the model                                    *)
(***************************************************************************)
\* 121 characters, two words
tGood == <<Run("a", 60), Run(" ", 1), Run("b", 60)>>
\* tGood with other whitespace: equal to it after whitespace normalization
tGoodWs == <<Run(" ", 2), Run("a", 60), Run("\n", 1), Run("b", 60)>>
\* tGood with an upper-case first word
tGoodUp == <<Run("A", 60), Run(" ", 1), Run("b", 60)>>
\* 120 characters, one word
tOther == <<Run("b", 120)>>
\* 61 characters: at least min_content_length, fewer than 100
tMid == <<Run("a", 30), Run(" ", 1), Run("b", 30)>>
\* 40 characters: fewer than min_content_length
tShort == <<Run("a", 40)>>
\* whitespace only
tBlank == <<Run(" ", 3)>>

\* a dict handed to validate_single_content
ContentItem(id, content, keys, source, name) ==
    [id |-> id, content |-> content, keys |-> keys, source |-> source, name |-> name]

FullKeys == {"source", "collection_time", "created_time", "modified_time", "title", "path"}
PipelineKeys == {"source", "collection_time", "created_time", "modified_time", "path"}

\* the dicts the controller is called with directly
QCItems ==
    {ContentItem(Id("x"), tGood, FullKeys, "obsidian", ""),
     ContentItem(Id("y"), tGoodWs, FullKeys, "obsidian", ""),
     ContentItem(Id("y"), tGoodUp, PipelineKeys, "obsidian", ""),
     ContentItem(Id("u"), tGoodUp, FullKeys, "obsidian", ""),
     ContentItem(Id("z"), tOther, {}, "unknown", "scan.pdf"),
     ContentItem(Id("m"), tMid, FullKeys, "obsidian", ""),
     ContentItem(Id("s"), tShort, FullKeys, "obsidian", ""),
     ContentItem(Id("e"), <<>>, FullKeys, "obsidian", "")}

\* a dict a collector returns
CollectedItem(id, content, title, source, name, path, times) ==
    [id |-> id, content |-> content, title |-> title, source |-> source,
     name |-> name, path |-> path, times |-> times]

AllTimes == {"collection_time", "created_time", "modified_time"}

\* a note of an Obsidian vault: the title is the name of the file
Note(id, content) ==
    CollectedItem(id, content, <<Run("b", 4)>>, "obsidian", "", <<"folder", "bbbb.md">>,
                  AllTimes)

iGood == Note(Id("x"), tGood)
iGoodWs == Note(Id("y"), tGoodWs)
\* a short note with the id of iGood (two vaults of one name hold the same path)
iShortX == Note(Id("x"), tShort)
\* a dict whose content is None
iNone == Note(Id("n"), None)
\* a dict with no title and a content of whitespace: nothing is left after cleaning
iBlank == CollectedItem(Id("e"), tBlank, <<>>, "safari_bookmarks", "", <<>>, AllTimes)
\* a dict with no id: the id is the hash of the content
iHash == Note(NoId, tGood)
iOther == CollectedItem(Id("z"), tOther, <<>>, "unknown", "", <<>>, {})

\* what the collector of the applications and of the cloud drives can return
ApplicationResults ==
    {Collected(<<iGood, iGoodWs>>), Collected(<<iShortX, iGood>>),
     Collected(<<iNone, iGood, iBlank>>), Collected(<<iHash, iHash>>), CollectorRaised}

CloudResults == {Collected(<<iOther>>), CollectorRaised}

\* the configurations a coordinator is built with: the default one, and some with
\* the two sources that have no collector method disabled
Configs ==
    {_load_config,
     Config(FALSE, FALSE, TRUE, TRUE, DEFAULT_BATCH_SIZE, TRUE, DEFAULT_MIN_QUALITY_SCORE),
     Config(FALSE, FALSE, TRUE, TRUE, 2, FALSE, DEFAULT_MIN_QUALITY_SCORE),
     Config(FALSE, FALSE, FALSE, TRUE, 0, TRUE, DEFAULT_MIN_QUALITY_SCORE),
     Config(FALSE, FALSE, TRUE, TRUE, 1, TRUE, 1)}

\* the files process_single_file is called on: the text of the file, None for a
\* file that cannot be read
File(content) == [content |-> content]

Files == {File(tGood), File(tGoodWs), File(tShort), File(tBlank), File(None)}

JobIds == {"job_1", "job_2"}

\* the lists of files process_batch_files is called on
FileLists ==
    {<<>>, <<File(tGood)>>, <<File(None), File(tGood)>>, <<File(tShort), File(tGood)>>,
     <<File(tGood), File(tGood)>>, <<File(None), File(None)>>}

\* a new_config with the three required sections and the section of the quality
\* controller
NewConfig(file_system, processing, storage, quality_control) ==
    [file_system |-> file_system, processing |-> processing, storage |-> storage,
     quality_control |-> quality_control]

\* what update_config is called on: None, {}, a dict with no storage section,
\* three empty sections, and dicts whose file_system section is a path
NewConfigs ==
    {NoneValue, <<>>, [file_system |-> <<>>, processing |-> <<>>],
     [file_system |-> <<>>, processing |-> <<>>, storage |-> <<>>],
     [file_system |-> Path("/data"), processing |-> <<>>, storage |-> <<>>],
     NewConfig(Path("/data"), <<>>, <<>>, QualityConfig(1)),
     NewConfig(Path("/data"), NoneValue, <<>>, QualityConfig(1)),
     NewConfig(Path("/data"), <<>>, <<>>, Number(3)),
     NewConfig(Path("/data"), <<>>, Unwritable, QualityConfig(1))}

\* the least number of distinct words whose similarity words / (words + 100)
\* exceeds pct / 100
FewestWordsOver(pct) == (pct * SIMILARITY_PAD) \div (100 - pct) + 1

\* a text of k distinct words, none of them a word of the other texts
ManyWords(k) ==
    [i \in 1..(2 * k - 1) |-> IF i % 2 = 1 THEN Run("c", (i + 1) \div 2) ELSE Run(" ", 1)]

\* the duplicate_threshold settings of the controller, in hundredths: the
\* default 0.85 and 0.1
SimThresholds == {DEFAULT_DUPLICATE_THRESHOLD, 10}

\* the items validated one after the other for the near-duplicate check: three
\* texts of one or two words, and two texts that share no word with them,
\* one with the fewest words whose similarity exceeds 0.1 and one with a word
\* less
SimItems ==
    {ContentItem(Id("x"), tGood, FullKeys, "obsidian", ""),
     ContentItem(Id("m"), tMid, FullKeys, "obsidian", ""),
     ContentItem(Id("z"), tOther, FullKeys, "obsidian", ""),
     ContentItem(Id("w"), ManyWords(FewestWordsOver(10)), FullKeys, "obsidian", ""),
     ContentItem(Id("v"), ManyWords(FewestWordsOver(10) - 1), FullKeys, "obsidian", "")}

\* the new_config update_config is called on between two runs of the pipeline:
\* the sections are dicts, the batch size is 0 or 1
RunConfigs ==
    {[file_system |-> [enabled |-> FALSE],
      processing |-> [batch_size |-> b, parallel_processing |-> TRUE],
      storage |-> <<>>] : b \in {0, 1}}

\* the items validated and the configurations handed to update_config when
\* the two are called on one coordinator: tGood twice, the second time with
\* other whitespace and another id; {} and a new_config update_config accepts
DedupItems ==
    {ContentItem(Id("x"), tGood, FullKeys, "obsidian", ""),
     ContentItem(Id("y"), tGoodWs, FullKeys, "obsidian", "")}
DedupConfigs == {<<>>, [file_system |-> Path("/data"), processing |-> <<>>, storage |-> <<>>]}

\* the lists validate_content_batch is called on: items with the same normalized
\* content under two ids, alone and with items of another content
GatheredItems ==
    {<<ContentItem(Id("x"), tGood, FullKeys, "obsidian", "")>>,
     <<ContentItem(Id("x"), tGood, FullKeys, "obsidian", ""),
       ContentItem(Id("y"), tGoodWs, FullKeys, "obsidian", "")>>,
     <<ContentItem(Id("y"), tGoodWs, FullKeys, "obsidian", ""),
       ContentItem(Id("m"), tMid, FullKeys, "obsidian", ""),
       ContentItem(Id("x"), tGood, FullKeys, "obsidian", "")>>,
     <<ContentItem(Id("s"), tShort, FullKeys, "obsidian", ""),
       ContentItem(Id("u"), tShort, FullKeys, "obsidian", "")>>}

\* what validate_content is called on: ProcessedContent objects of process_file,
\* one with no text, and the dicts process_file returns
ValidatedContents ==
    {process_file(File(content)).processed_content : content \in {tGood, tGoodWs, tShort}}
        \cup {NoContent}
        \cup {ProcessResult(process_file(File(content)), 0) : content \in {tGood, None}}

\* what the disk does during a run, to the content files (io) and to the report
\* file (report_io): at most one of the two fails
DiskOutcomes ==
    {[io |-> "ok", report_io |-> "ok"], [io |-> "file_error", report_io |-> "ok"],
     [io |-> "ok", report_io |-> "error"]}

\* what store_processed_content is called with directly
Keyword(name) == <<Run(name, 4)>>

StoredContents ==
    {ProcessedContent(Id("x"), tGood, tGood, <<Keyword("a"), Keyword("b")>>,
                      <<"entity_1">>, <<[type |-> "created_by", target |-> <<"obsidian">>]>>,
                      <<"topic_1", "topic_2">>,
                      [keys |-> {"source"}, source |-> "obsidian", name |-> ""]),
     ProcessedContent(Id("x"), tOther, tOther, <<Keyword("b")>>, <<>>, <<>>, <<"topic_2">>,
                      [keys |-> {"source"}, source |-> "bear_notes", name |-> ""]),
     ProcessedContent(Id("y"), tGoodUp, tGoodUp, <<Keyword("a")>>, <<"entity_1">>, <<>>, <<>>,
                      [keys |-> {}, source |-> "", name |-> ""])}

StoredReports ==
    {ValidationResult(TRUE, 6, <<"Missing recommended metadata">>,
                      QualityReport(Id("x"), GOOD, 6, <<"Missing recommended metadata">>)),
     ValidationResult(TRUE, 10, <<>>, QualityReport(Id("x"), EXCELLENT, 10, <<>>)),
     QualityReport(Id("x"), GOOD, 7, <<"Content could be more informative">>)}

\* the results of validate_content that the stores before a cleanup are called
\* with, and the values of quality_threshold
CleanupReports ==
    {ValidationResult(TRUE, 6, <<"Missing recommended metadata">>,
                      QualityReport(Id("x"), GOOD, 6, <<"Missing recommended metadata">>)),
     ValidationResult(TRUE, 4, <<"Content could be more informative">>,
                      QualityReport(Id("x"), ACCEPTABLE, 4,
                                    <<"Content could be more informative">>)),
     ValidationResult(TRUE, 1, <<"Content is very short">>,
                      QualityReport(Id("x"), REJECTED, 1, <<"Content is very short">>))}
CleanupThresholds == {DEFAULT_QUALITY_THRESHOLD, 7}

(***************************************************************************)
(* State                                                                   *)
(***************************************************************************)
VARIABLES
    quality_config,         \* QualityController: the settings read in __init__
    content_hashes,         \* QualityController.content_hashes
    content_fingerprints,   \* QualityController.content_fingerprints
    storage,                \* StorageManager: the content files and the tables
    config,                 \* IngestionCoordinator.config
    stats,                  \* IngestionCoordinator.stats
    active_jobs,            \* IngestionCoordinator.active_jobs
    completed_jobs,         \* IngestionCoordinator.completed_jobs
    clock,                  \* datetime.now()
    validations,            \* the validate_single_content calls made directly
    stores,                 \* the store_processed_content calls made directly
    last_run,               \* the latest run_full_ingestion call, what it went through
    last_job,               \* the latest process_single_file call
    calls,                  \* the number of coordinator calls made
    job_calls,              \* the calls of the job APIs, in the order they started
    components,             \* the number of the instance each component field holds
    updates,                \* the update_config calls made
    cleanups,               \* the cleanup_storage calls made
    tasks                   \* the validate_single_content tasks given to asyncio.gather

qc_vars == <<quality_config, content_hashes, content_fingerprints>>
coordinator_vars == <<config, components, stats, active_jobs, completed_jobs, clock>>
log_vars == <<validations, stores, last_run, last_job, calls, job_calls, updates,
             cleanups, tasks>>
vars == <<qc_vars, storage, coordinator_vars, log_vars>>

MaxUpdates == 2
MaxTasks == 3
MaxValidations == 3
MaxStores == 3
MaxCalls == 2
MaxJobs == 2

NoRun ==
    [called |-> FALSE, raised |-> FALSE, start_time |-> 0, config |-> _load_config,
     collector_results |-> [cloud_drives |-> Collected(<<>>),
                            applications |-> Collected(<<>>)],
     run |-> [phases |-> 0, content_hashes |-> {}, content_fingerprints |-> <<>>,
              db |-> EmptyStorage, collected_content |-> <<>>, batches |-> <<>>,
              processed_content |-> <<>>, results |-> <<>>, quality_reports |-> <<>>,
              approved_content |-> <<>>, store_calls |-> <<>>]]

\* a call of a job API: the job id, the kind of job, whether the call is over
\* and whether it raised, the job record it left, the number of files it had and
\* how every file ended
JobCall(job_id, job_type, done, raised, error, job_info, total_files, outcomes) ==
    [job_id |-> job_id, job_type |-> job_type, done |-> done, raised |-> raised,
     error |-> error, job_info |-> job_info, total_files |-> total_files,
     outcomes |-> outcomes]

\* the job record a job API puts in active_jobs when it starts
Processing(job_id) == JobInfo(job_id, "processing", 0, 0, 0, 0, 0, 0)

NoJob ==
    [called |-> FALSE, raised |-> FALSE, stored |-> FALSE, validation |-> ValidationError,
     processed_content |-> NoContent, job_info |-> JobInfo("", "none", 0, 0, 0, 0, 0, 0)]

\* IngestionCoordinator.__init__ with the configuration cfg, on an empty storage
\* path: the collectors, the processor, the controller and the storage manager
CoordinatorInit(cfg) ==
    /\ config = cfg
    /\ quality_config = cfg.quality_control
    /\ content_hashes = {}
    /\ content_fingerprints = <<>>
    /\ storage = EmptyStorage
    /\ stats = InitialStats
    /\ active_jobs = <<>>
    /\ completed_jobs = <<>>
    /\ clock = 1
    /\ validations = <<>>
    /\ stores = <<>>
    /\ last_run = NoRun
    /\ last_job = NoJob
    /\ calls = 0
    /\ job_calls = <<>>
    /\ components = InitialComponents
    /\ updates = <<>>
    /\ cleanups = <<>>
    /\ tasks = <<>>

\* a call of validate_single_content(item)
ValidateSingle(item) ==
    /\ Len(validations) < MaxValidations
    /\ \E out \in {validate_single_content(item, content_hashes, content_fingerprints,
                                          quality_config)} :
        /\ content_hashes' = out.content_hashes
        /\ content_fingerprints' = out.content_fingerprints
        /\ validations' = Append(validations,
               [item |-> item, raised |-> out.raised, report |-> out.report,
                duplicate_score |-> out.duplicate_score, scores |-> out.scores])
        /\ UNCHANGED <<quality_config, storage, coordinator_vars, updates, cleanups, stores, last_run,
                       last_job, calls, job_calls, tasks>>

\* a call of store_processed_content(processed_content, quality_report)
StoreProcessedContent(processed_content, quality_report, io) ==
    /\ Len(stores) < MaxStores
    /\ \E out \in {store_processed_content(processed_content, quality_report, storage, io)} :
        /\ storage' = out.db
        /\ stores' = Append(stores, [processed_content |-> processed_content,
                                     quality_report |-> quality_report,
                                     result |-> out.result])
        /\ UNCHANGED <<qc_vars, coordinator_vars, updates, cleanups, validations, last_run, last_job, calls,
                       job_calls, tasks>>

\* a call of run_full_ingestion()
RunFullIngestion(collector_results, io, report_io) ==
    /\ calls < MaxCalls
    /\ \E r \in {run_full_ingestion(config, stats, content_hashes, content_fingerprints,
                                   storage, collector_results, io, report_io, clock)} :
        /\ calls' = calls + 1
        /\ stats' = r.out.stats
        /\ content_hashes' = r.run.content_hashes
        /\ content_fingerprints' = r.run.content_fingerprints
        /\ storage' = r.run.db
        /\ clock' = clock + 3
        /\ last_run' = [called |-> TRUE, raised |-> r.out.raised, start_time |-> clock,
                        config |-> config, collector_results |-> collector_results,
                        run |-> r.run]
        /\ UNCHANGED <<quality_config, config, components, updates, cleanups, active_jobs, completed_jobs, validations,
                       stores, last_job, job_calls, tasks>>

\* a call of process_single_file(file_path, job_id)
ProcessSingleFile(file, job_id, io) ==
    /\ calls < MaxCalls
    /\ \E r \in {process_single_file(file, job_id, completed_jobs, content_hashes,
                                    content_fingerprints, quality_config, storage, io)} :
        /\ calls' = calls + 1
        /\ active_jobs' = Del(Put(active_jobs, job_id, r.job_info), job_id)
        /\ completed_jobs' = r.completed_jobs
        /\ content_hashes' = r.content_hashes
        /\ content_fingerprints' = r.content_fingerprints
        /\ storage' = r.db
        /\ last_job' = [called |-> TRUE, raised |-> r.raised, stored |-> r.stored,
                        validation |-> r.validation,
                        processed_content |-> r.processed_content,
                        job_info |-> r.job_info]
        /\ job_calls' = Append(job_calls,
               JobCall(job_id, "single", TRUE, r.raised,
                       IF r.raised THEN "ValueError" ELSE "none", r.job_info, 1,
                       <<IF r.raised THEN "ValueError"
                         ELSE IF r.job_info.storage_used_bytes > 0 THEN "stored"
                         ELSE "completed">>))
        /\ UNCHANGED <<quality_config, config, components, updates, cleanups, stats, clock, validations, stores, last_run, tasks>>

\* a call of process_single_file(file_path, job_id) as one of the job calls
ProcessSingleFileJob(file, job_id, io) ==
    Len(job_calls) < MaxJobs /\ ProcessSingleFile(file, job_id, io)

\* a call of process_batch_files(file_paths, job_id)
ProcessBatchFiles(file_paths, job_id, io) ==
    /\ Len(job_calls) < MaxJobs
    /\ \E r \in {process_batch_files(file_paths, job_id, completed_jobs, content_hashes,
                                    content_fingerprints, quality_config, storage, io,
                                    clock)} :
        /\ active_jobs' = Del(Put(active_jobs, job_id, r.job_info), job_id)
        /\ completed_jobs' = r.completed_jobs
        /\ content_hashes' = r.content_hashes
        /\ content_fingerprints' = r.content_fingerprints
        /\ storage' = r.db
        /\ clock' = clock + Len(file_paths)
        /\ job_calls' = Append(job_calls,
               JobCall(job_id, "batch", TRUE, r.raised, "none", r.job_info, Len(file_paths),
                       r.outcomes))
        /\ UNCHANGED <<quality_config, config, components, updates, cleanups, stats, validations, stores, last_run,
                       last_job, calls, tasks>>

\* a call of sync_cloud_drives(job_id) up to the await of collect_all_drives,
\* where the call is suspended while the drives are read
SyncCloudDrivesStart(job_id) ==
    /\ Len(job_calls) < MaxJobs
    /\ active_jobs' = Put(active_jobs, job_id, Processing(job_id))
    /\ job_calls' = Append(job_calls,
           JobCall(job_id, "cloud_sync", FALSE, FALSE, "none", Processing(job_id), 0, <<>>))
    /\ UNCHANGED <<qc_vars, storage, config, components, updates, cleanups, stats, completed_jobs, clock, validations,
                   stores, last_run, last_job, calls, tasks>>

\* the rest of the k-th call of the job APIs, a suspended sync_cloud_drives, once
\* collect_all_drives has returned or raised
SyncCloudDrivesEnd(k, result, io) ==
    /\ k \in DOMAIN job_calls
    /\ ~job_calls[k].done
    /\ \E r \in {sync_cloud_drives(result, job_calls[k].job_id, active_jobs,
                                  completed_jobs, content_hashes, content_fingerprints,
                                  quality_config, storage, io, clock)} :
        /\ active_jobs' = r.active_jobs
        /\ completed_jobs' = r.completed_jobs
        /\ content_hashes' = r.content_hashes
        /\ content_fingerprints' = r.content_fingerprints
        /\ storage' = r.db
        /\ clock' = clock + r.total_files
        /\ job_calls' = [job_calls EXCEPT ![k] =
               JobCall(@.job_id, "cloud_sync", TRUE, r.raised, r.error, r.job_info,
                       r.total_files,
                       r.outcomes)]
        /\ UNCHANGED <<quality_config, config, components, updates, cleanups, stats, validations, stores, last_run,
                       last_job, calls, tasks>>

\* a call of store_processed_content or of cleanup_storage as one of the
\* storage operations
StoreThenCleanup(processed_content, quality_report, io) ==
    /\ Len(stores) + Len(cleanups) < MaxStores
    /\ StoreProcessedContent(processed_content, quality_report, io)

\* a call of cleanup_storage(days_old, quality_threshold)
CleanupStorage(quality_threshold, old, io) ==
    /\ Len(stores) + Len(cleanups) < MaxStores
    /\ \E out \in {cleanup_storage(quality_threshold, old, storage, io)} :
        /\ storage' = out.db
        /\ cleanups' = Append(cleanups,
               [quality_threshold |-> quality_threshold, old |-> old,
                before |-> storage, after |-> out.db, deleted |-> out.deleted,
                result |-> out.result])
        /\ UNCHANGED <<qc_vars, coordinator_vars, validations, stores, last_run, last_job,
                       calls, job_calls, updates, tasks>>

\* a task that reads the hashes as they were when it was created
task_hashes_at_start(at_start, now) == at_start

\* self.content_hashes as a task reads it at line 265: the set as it is when the
\* task runs, no await lying between that line and the add of line 127
task_hashes(at_start, now) == now

\* validate_content_batch(content_items) up to the await of asyncio.gather: one
\* task for every item
GatherStart(content_items) ==
    /\ Len(tasks) + Len(content_items) <= MaxTasks
    /\ tasks' = tasks \o [i \in DOMAIN content_items |->
                            [item |-> content_items[i], done |-> FALSE, raised |-> FALSE,
                             at_start |-> content_hashes, report |-> NoReport,
                             duplicate_score |-> PERFECT]]
    /\ UNCHANGED <<qc_vars, storage, coordinator_vars, validations, stores, last_run,
                   last_job, calls, job_calls, updates, cleanups>>

\* the event loop runs the k-th task, a validate_single_content, to its end
RunTask(k) ==
    /\ k \in DOMAIN tasks
    /\ ~tasks[k].done
    /\ \E out \in {validate_single_content(tasks[k].item,
                                          task_hashes(tasks[k].at_start, content_hashes),
                                          content_fingerprints, quality_config)} :
        /\ content_hashes' = content_hashes \cup out.content_hashes
        /\ content_fingerprints' = out.content_fingerprints
        /\ tasks' = [tasks EXCEPT ![k] =
               [@ EXCEPT !.done = TRUE, !.raised = out.raised, !.report = out.report,
                         !.duplicate_score = out.duplicate_score]]
        /\ UNCHANGED <<quality_config, storage, coordinator_vars, validations, stores,
                       last_run, last_job, calls, job_calls, updates, cleanups>>

\* a call of update_config(new_config)
UpdateConfig(new_config) ==
    /\ Len(updates) < MaxUpdates
    /\ \E r \in {update_config(new_config, config, components, quality_config,
                                content_hashes, content_fingerprints)} :
        /\ config' = r.config
        /\ components' = r.components
        /\ quality_config' = r.quality_config
        /\ content_hashes' = r.content_hashes
        /\ content_fingerprints' = r.content_fingerprints
        /\ updates' = Append(updates,
               [new_config |-> new_config, result |-> r.result,
                before |-> [config |-> config, components |-> components],
                after |-> [config |-> r.config, components |-> r.components]])
        /\ UNCHANGED <<storage, stats, active_jobs, completed_jobs, clock, validations,
                       stores, last_run, last_job, calls, job_calls, cleanups, tasks>>

\* a call of validate_content(processed_content); a dict of process_file holds
\* the time it was made at
ValidateContent(processed_content) ==
    /\ Len(validations) < MaxValidations
    /\ \E r \in {validate_content(IF IsDict(processed_content)
                                  THEN ProcessResult(processed_content, clock)
                                  ELSE processed_content,
                                  content_hashes, content_fingerprints, quality_config)} :
        /\ content_hashes' = r.content_hashes
        /\ content_fingerprints' = r.content_fingerprints
        /\ clock' = clock + 1
        /\ validations' = Append(validations,
               [processed_content |-> processed_content, result |-> r.result])
        /\ UNCHANGED <<quality_config, storage, config, components, updates, cleanups, stats, active_jobs, completed_jobs,
                       stores, last_run, last_job, calls, job_calls, tasks>>

\* the quality controller alone
InitQC ==
    \E m \in {1, DEFAULT_MIN_QUALITY_SCORE} :
        CoordinatorInit(Config(FALSE, FALSE, TRUE, TRUE, DEFAULT_BATCH_SIZE, TRUE, m))
NextQC == \E item \in QCItems : ValidateSingle(item)
SpecQC == InitQC /\ [][NextQC]_vars

\* the storage manager alone
InitStore == CoordinatorInit(_load_config)
NextStore ==
    \E processed_content \in StoredContents, quality_report \in StoredReports,
       io \in {"ok", "file_error", "db_error"} :
        StoreProcessedContent(processed_content, quality_report, io)
SpecStore == InitStore /\ [][NextStore]_vars

\* validations through a coordinator whose configuration is updated
NextDedup ==
    \/ \E item \in DedupItems : ValidateSingle(item)
    \/ \E new_config \in DedupConfigs : UpdateConfig(new_config)
SpecDedup == InitQC /\ [][NextDedup]_vars

\* the quality controller validating texts of few and of many words, under one
\* of two duplicate thresholds
InitSim ==
    \E d \in SimThresholds :
        CoordinatorInit([_load_config EXCEPT !.quality_control.duplicate_threshold = d])
NextSim == \E item \in SimItems : ValidateSingle(item)
SpecSim == InitSim /\ [][NextSim]_vars

\* the tasks of validate_content_batch calls on one controller, run in any order
NextGather ==
    \/ \E content_items \in GatheredItems : GatherStart(content_items)
    \/ \E k \in 1..MaxTasks : RunTask(k)
SpecGather == InitQC /\ [][NextGather]_vars

\* validate_content alone, with the default configuration and with a
\* min_quality_score below the REJECTED threshold
NextVC == \E processed_content \in ValidatedContents : ValidateContent(processed_content)
SpecVC == InitQC /\ [][NextVC]_vars

\* the storage manager alone, with cleanup_storage
NextCleanup ==
    \/ \E processed_content \in StoredContents, quality_report \in CleanupReports,
          io \in {"ok", "db_error"} :
           StoreThenCleanup(processed_content, quality_report, io)
    \/ \E quality_threshold \in CleanupThresholds, old \in BOOLEAN,
          io \in {"ok", "file_error", "db_error"} :
           CleanupStorage(quality_threshold, old, io)
SpecCleanup == InitStore /\ [][NextCleanup]_vars

\* the job APIs of the coordinator, with the default configuration and with a
\* min_quality_score below the REJECTED threshold
InitJobs ==
    \E m \in {1, DEFAULT_MIN_QUALITY_SCORE} :
        CoordinatorInit(Config(FALSE, FALSE, TRUE, TRUE, DEFAULT_BATCH_SIZE, TRUE, m))
NextJobs ==
    \/ \E file \in Files, job_id \in JobIds, io \in {"ok", "file_error", "db_error"} :
           ProcessSingleFileJob(file, job_id, io)
    \/ \E file_paths \in FileLists, job_id \in JobIds, io \in {"ok", "db_error"} :
           ProcessBatchFiles(file_paths, job_id, io)
    \/ \E job_id \in JobIds : SyncCloudDrivesStart(job_id)
    \/ \E k \in 1..MaxJobs, result \in CloudResults :
           SyncCloudDrivesEnd(k, result, "ok")
SpecJobs == InitJobs /\ [][NextJobs]_vars

\* the coordinator
Init == \E cfg \in Configs : CoordinatorInit(cfg)
Next ==
    \/ \E applications \in ApplicationResults, cloud_drives \in CloudResults,
          disk \in DiskOutcomes :
           RunFullIngestion([cloud_drives |-> cloud_drives,
                             applications |-> applications], disk.io, disk.report_io)
    \/ \E file \in Files, job_id \in JobIds, io \in {"ok", "file_error", "db_error"} :
           ProcessSingleFile(file, job_id, io)
Spec == Init /\ [][Next]_vars

\* update_config alone, from each of the configurations
NextConfig == \E new_config \in NewConfigs : UpdateConfig(new_config)
SpecConfig == Init /\ [][NextConfig]_vars

\* runs of the pipeline on one coordinator whose processing section is replaced
\* between them by update_config
InitRuns ==
    CoordinatorInit(Config(FALSE, FALSE, TRUE, TRUE, DEFAULT_BATCH_SIZE, TRUE,
                           DEFAULT_MIN_QUALITY_SCORE))
NextRuns ==
    \/ \E applications \in ApplicationResults, cloud_drives \in CloudResults :
           RunFullIngestion([cloud_drives |-> cloud_drives,
                             applications |-> applications], "ok", "ok")
    \/ \E new_config \in RunConfigs : UpdateConfig(new_config)
SpecRuns == InitRuns /\ [][NextRuns]_vars

(***************************************************************************)
(* Properties of the quality controller, under SpecQC                      *)
(***************************************************************************)
\* whitespace normalization: leading and trailing whitespace dropped, every
\* inner group of whitespace one blank
ws_normalize(t) == sub_whitespace(strip(t))

\* the pairs (i, j) of an earlier and a later completed validation of contents
\* that are identical after whitespace normalization
SameContentPairs ==
    {p \in (1..Len(validations)) \X (1..Len(validations)) :
        /\ p[1] < p[2]
        /\ ~validations[p[1]].raised /\ ~validations[p[2]].raised
        /\ ws_normalize(validations[p[1]].item.content)
               = ws_normalize(validations[p[2]].item.content)}

\* C4 as stated: once a content has been validated by a controller, a second
\* validation of content identical to it after whitespace normalization gets
\* duplication score 0.0 or at most 2.0.
C4_DuplicateAfterAnyValidation ==
    \A p \in SameContentPairs : validations[p[2]].duplicate_score <= 2

\* C4 amended: once a content has been validated by a controller with a level
\* other than REJECTED, a later validation by the same controller of content
\* identical to it after whitespace normalization gets duplication score 0.0
\* or at most 2.0.
C4_DuplicateAfterAcceptedValidation ==
    \A p \in SameContentPairs :
        validations[p[1]].report.quality_level # REJECTED
            => validations[p[2]].duplicate_score <= 2

\* an accepted content followed by a different text that is identical to it
\* after whitespace normalization
C4_Witness ==
    \E p \in SameContentPairs :
        /\ validations[p[1]].report.quality_level # REJECTED
        /\ validations[p[1]].item.content # validations[p[2]].item.content
        /\ validations[p[2]].duplicate_score = 0

LevelRank(level) ==
    CASE level = REJECTED -> 0
      [] level = POOR -> 1
      [] level = ACCEPTABLE -> 2
      [] level = GOOD -> 3
      [] level = EXCELLENT -> 4

\* the level the thresholds 2, 4, 6, 8 assign to a score
LevelByThresholds(score) ==
    CASE score >= 8 -> EXCELLENT
      [] score >= 6 /\ score < 8 -> GOOD
      [] score >= 4 /\ score < 6 -> ACCEPTABLE
      [] score >= 2 /\ score < 4 -> POOR
      [] score < 2 -> REJECTED

\* the scores the seven dimensions can combine to
ScoreRange == (0 - PERFECT)..PERFECT

\* C6: the level is the function of the score fixed by the thresholds 2, 4, 6, 8,
\* it is monotone in the score, and every report's level is the level of the
\* score it reports.
C6_LevelIsMonotoneFunctionOfScore ==
    /\ \A s \in ScoreRange : _determine_quality_level(s) = LevelByThresholds(s)
    /\ \A s1, s2 \in ScoreRange :
          s1 < s2 => LevelRank(_determine_quality_level(s1))
                         <= LevelRank(_determine_quality_level(s2))
    /\ \A i \in 1..Len(validations) :
          ~validations[i].raised =>
              validations[i].report.quality_level
                  = LevelByThresholds(validations[i].report.score)

\* reports at the two ends of the scale, and one whose score is a threshold
C6_Witness ==
    /\ \E i \in 1..Len(validations) :
          ~validations[i].raised /\ validations[i].report.quality_level = REJECTED
    /\ \E i \in 1..Len(validations) :
          /\ ~validations[i].raised
          /\ validations[i].report.score = 8
          /\ validations[i].report.quality_level = EXCELLENT

\* C7: the score of every report validate_single_content returns is in [0, 10].
C7_ScoreInRange ==
    \A i \in 1..Len(validations) :
        ~validations[i].raised =>
            validations[i].report.score >= 0 /\ validations[i].report.score <= PERFECT

\* the five dimensions that cap the score
CappedDimensions == {"quality", "format", "density", "metadata", "source"}

\* the score after the penalties of the length and of the duplication
Penalized(scores) == PERFECT - (PERFECT - scores.length) - (PERFECT - scores.duplication)

\* C20: the score of a report of validate_single_content is the least of the
\* penalized score, 10 - (10 - length) - (10 - duplication), and of the scores
\* of quality, format, density, metadata and source: it exceeds none of these
\* five, however well the other dimensions scored.
C20_ScoreIsMinimumOfCaps ==
    \A i \in 1..Len(validations) :
        ~validations[i].raised =>
            LET scores == validations[i].scores
                candidates == {Penalized(scores)} \cup {scores[d] : d \in CappedDimensions}
            IN  /\ validations[i].report.score \in candidates
                /\ \A c \in candidates : validations[i].report.score <= c

\* a report whose score is what the two penalties leave, both taken, and a
\* report whose score is that of a capped dimension although every other
\* dimension scored higher
C20_Witness ==
    /\ \E i \in 1..Len(validations) :
          /\ ~validations[i].raised
          /\ validations[i].scores.length < PERFECT
          /\ validations[i].scores.duplication < PERFECT
          /\ validations[i].report.score = Penalized(validations[i].scores)
    /\ \E i \in 1..Len(validations) :
          /\ ~validations[i].raised
          /\ \E d \in CappedDimensions :
                /\ validations[i].report.score = validations[i].scores[d]
                /\ validations[i].scores[d] < Penalized(validations[i].scores)
                /\ \A e \in CappedDimensions \ {d} :
                      validations[i].scores[e] > validations[i].scores[d]

\* the validations that returned a report with a level other than REJECTED
NotRejected ==
    {i \in 1..Len(validations) :
        ~validations[i].raised /\ validations[i].report.quality_level # REJECTED}

\* C21: a validation that ends REJECTED (or raises) leaves the dedup state as it
\* was: after any sequence of validations content_hashes holds exactly the
\* normalized hashes of the contents validated with a level other than
\* REJECTED, and content_fingerprints maps exactly the ids of such contents,
\* each to the hash of its latest such validation.
C21_RejectedLeavesDedupState ==
    /\ content_hashes
           = {_generate_content_hash(validations[i].item.content) : i \in NotRejected}
    /\ DOMAIN content_fingerprints = {validations[i].item.id : i \in NotRejected}
    /\ \A i \in NotRejected :
          (\A j \in NotRejected : validations[j].item.id = validations[i].item.id => j <= i)
              => content_fingerprints[validations[i].item.id]
                     = _generate_content_hash(validations[i].item.content)

\* a content validated with a level other than REJECTED, then a REJECTED
\* validation of a content with another hash and another id that left no trace
C21_Witness ==
    \E i \in NotRejected, j \in 1..Len(validations) :
        /\ i < j
        /\ ~validations[j].raised
        /\ validations[j].report.quality_level = REJECTED
        /\ validations[j].item.id \notin DOMAIN content_fingerprints
        /\ _generate_content_hash(validations[j].item.content) \notin content_hashes

\* C22: the set of prior hashes lasts as long as the coordinator: once a content
\* was validated with a level other than REJECTED, every later validation
\* through the same coordinator of a content with the same normalized hash gets
\* duplication score 0.0, whatever update_config calls were made in between.
C22_PriorHashesLastForLifetime ==
    \A i \in NotRejected, j \in 1..Len(validations) :
        /\ i < j
        /\ ~validations[j].raised
        /\ _generate_content_hash(validations[j].item.content)
               = _generate_content_hash(validations[i].item.content)
        => validations[j].duplicate_score = 0

(***************************************************************************)
(* Properties of the storage manager, under SpecStore                      *)
(***************************************************************************)
\* the direct calls of store_processed_content that reported success
Successful == {i \in DOMAIN stores : stores[i].result.success}

\* the rows a table should hold for a content id and a list of values
ExpectedRows(id, values) == [i \in 1..Len(values) |-> [content_id |-> id, value |-> values[i]]]

\* C3: store_processed_content is an idempotent upsert keyed by content_id: after
\* any sequence of stores, every content id stored has one row in content, that of
\* its latest store, and in keywords, entities, relationships, topics and
\* quality_issues exactly the rows of its latest store; no other id has a row.
C3_StoreIsUpsertByContentId ==
    /\ \A i \in Successful :
          LET id == stores[i].processed_content.content_id
              Rows(table) == SelectSeq(table, LAMBDA r : r.content_id = id)
              stored == stores[i].processed_content
              latest == \A j \in Successful :
                            stores[j].processed_content.content_id = id => j <= i
          IN  latest =>
                /\ SelectSeq(storage.content_table, LAMBDA r : r.id = id)
                       = <<[id |-> id, source |-> stored.metadata.source,
                            quality_score |-> stores[i].quality_report.quality_score,
                            quality_level |->
                                stores[i].quality_report.quality_report.quality_level]>>
                /\ Rows(storage.keywords_table) = ExpectedRows(id, stored.keywords)
                /\ Rows(storage.entities_table) = ExpectedRows(id, stored.entities)
                /\ Rows(storage.relationships_table)
                       = ExpectedRows(id, stored.relationships)
                /\ Rows(storage.topics_table) = ExpectedRows(id, stored.topics)
                /\ Rows(storage.quality_issues_table)
                       = ExpectedRows(id, stores[i].quality_report.issues)
    /\ \A k \in DOMAIN storage.content_table :
          \E i \in Successful :
              stores[i].processed_content.content_id = storage.content_table[k].id

\* one content id stored twice with success, with other keywords, topics and issues
C3_Witness ==
    \E i, j \in Successful :
        /\ i < j
        /\ stores[i].processed_content.content_id = stores[j].processed_content.content_id
        /\ stores[i].processed_content.keywords # stores[j].processed_content.keywords
        /\ stores[i].processed_content.topics # stores[j].processed_content.topics
        /\ stores[i].quality_report.issues # stores[j].quality_report.issues

\* C19: a store_processed_content call is atomic for its content id: what
\* retrieve_content gives for an id, the row joined with the content file and
\* the child rows, is at every moment what one successful call stored, also after
\* a call that failed midway.
C19_StoreIsAtomic ==
    \A k \in DOMAIN storage.content_table :
        LET retrieved == retrieve_content(storage, storage.content_table[k].id)
        IN  \E i \in Successful :
                LET stored == stores[i].processed_content
                IN  /\ stored.content_id = retrieved.id
                    /\ retrieved.content = stored.processed_content
                    /\ retrieved.original_content = stored.original_content
                    /\ retrieved.keywords = stored.keywords
                    /\ retrieved.entities = stored.entities
                    /\ retrieved.relationships = stored.relationships
                    /\ retrieved.topics = stored.topics
                    /\ retrieved.quality_issues = stores[i].quality_report.issues
                    /\ retrieved.quality_score = stores[i].quality_report.quality_score

(***************************************************************************)
(* Properties of the coordinator, under Spec                               *)
(***************************************************************************)
\* the positions, among the processed items of the latest run, of the items
\* passed to store_processed_content, in the order of the calls
RunStored ==
    ApprovedIndices(last_run.run.processed_content, last_run.run.quality_reports)

\* C1: in a full ingestion run no item whose quality report is REJECTED is passed
\* to store_processed_content.
C1_NoRejectedItemStoredByRun ==
    \A k \in DOMAIN last_run.run.store_calls :
        LET own == last_run.run.results[RunStored[k]]
        IN  ~own.raised => own.report.quality_level # REJECTED

\* C2: whatever min_quality_score is, process_single_file never calls
\* store_processed_content for content whose quality level is REJECTED.
C2_NoRejectedContentStoredByJob ==
    last_job.called /\ last_job.stored
        => last_job.validation.quality_report.quality_level # REJECTED

\* a run that went through all phases on two items whose contents are identical
\* after whitespace normalization and pass the length and format checks
TwinsRun ==
    /\ last_run.called
    /\ last_run.run.phases = 4
    /\ Len(last_run.run.collected_content) = 2
    /\ Len(last_run.run.processed_content) = 2
    /\ ws_normalize(last_run.run.processed_content[1].processed_content)
           = ws_normalize(last_run.run.processed_content[2].processed_content)
    /\ \A i \in 1..2 :
          /\ ~last_run.run.results[i].raised
          /\ "Content too short" \notin Range(last_run.run.results[i].report.issues)

\* C5: in one run with two items whose contents are identical after whitespace
\* normalization and pass the length and format checks, the first is stored
\* successfully, the second gets duplication score 0.0, is REJECTED and is not
\* stored, and total_stored counts exactly one.
C5_FirstTwinStoredSecondRejected ==
    TwinsRun =>
        /\ \E k \in DOMAIN storage.content_table :
              storage.content_table[k].id = last_run.run.processed_content[1].content_id
        /\ "Exact duplicate content detected"
               \in Range(last_run.run.results[2].report.issues)
        /\ last_run.run.results[2].report.quality_level = REJECTED
        /\ 2 \notin Range(RunStored)
        /\ stats.total_stored = 1

\* C8: run_full_ingestion never raises: it returns the statistics with end_time
\* set and with the counters of the phases it completed.
C8_RunReturnsStatistics ==
    last_run.called =>
        /\ ~last_run.raised
        /\ stats.start_time = <<last_run.start_time>>
        /\ stats.end_time # <<>>
        /\ stats.end_time[1] > last_run.start_time
        /\ last_run.run.phases >= 1 =>
              stats.total_collected = Len(last_run.run.collected_content)
        /\ last_run.run.phases = 4 =>
              /\ stats.total_processed = Len(last_run.run.processed_content)
              /\ stats.total_rejected = Len(last_run.run.processed_content)
                                            - Len(last_run.run.approved_content)
              /\ stats.total_stored \in 0..Len(last_run.run.approved_content)
        /\ last_run.run.phases < 4 => stats.errors # <<>>

\* a second run that stopped in the processing phase, after it had collected items
C8_Witness ==
    /\ last_run.called
    /\ last_run.start_time > 1
    /\ last_run.run.phases = 1
    /\ Len(last_run.run.collected_content) > 0
    /\ stats.errors[Len(stats.errors)] = Error("pipeline", 0, "ValueError")

\* the enabled sources whose collector failed in the latest run
FailedSources ==
    {source \in {"file_system", "digital_library"} : last_run.config[source].enabled}
    \cup {source \in {"cloud_drives", "applications"} :
             /\ last_run.config[source].enabled
             /\ last_run.collector_results[source].raised}

\* C9: a source collector that fails does not cancel or lose the others: the
\* failed source contributes no item (collection_stats[source] = 0), its error is
\* recorded in stats.errors and the failure is never fatal for the run.
C9_FailedSourceIsIsolated ==
    last_run.called =>
        \A source \in FailedSources :
            /\ source \in DOMAIN stats.collection_stats
            /\ stats.collection_stats[source] = 0
            /\ \E i \in DOMAIN stats.errors : stats.errors[i].scope = source
            /\ last_run.run.phases >= 1
            /\ \A other \in {"cloud_drives", "applications"} \ FailedSources :
                  last_run.config[other].enabled =>
                      \A i \in DOMAIN last_run.collector_results[other].items :
                          last_run.collector_results[other].items[i]
                              \in Range(last_run.run.collected_content)

\* C10: process_content_batch and validate_content_batch isolate the failure of an
\* item: the list returned holds exactly the results of the items that did not
\* raise, in the order of the items.
C10_BatchesKeepNonRaisingItems ==
    last_run.called =>
        /\ \A b \in DOMAIN last_run.run.batches :
              LET batch == last_run.run.batches[b].batch
                  fine == Ascending({k \in DOMAIN batch : batch[k].content # None})
              IN  last_run.run.batches[b].batch_results
                      = [j \in DOMAIN fine |-> process_single_content(batch[fine[j]])]
        /\ LET processed == last_run.run.processed_content
               fine == Ascending({i \in DOMAIN processed :
                                     str_len(processed[i].processed_content) > 0})
           IN  /\ Len(last_run.run.results) = Len(processed)
               /\ Len(last_run.run.quality_reports) = Len(fine)
               /\ \A j \in DOMAIN fine :
                     /\ last_run.run.quality_reports[j] = last_run.run.results[fine[j]].report
                     /\ last_run.run.quality_reports[j].content_id
                            = processed[fine[j]].content_id

\* a run in which an item raised in process_content_batch before another that did
\* not, and a validation raised in validate_content_batch
C10_Witness ==
    /\ last_run.called
    /\ \E b \in DOMAIN last_run.run.batches :
          /\ last_run.run.batches[b].batch[1].content = None
          /\ Len(last_run.run.batches[b].batch_results) > 0
    /\ \E i \in DOMAIN last_run.run.results : last_run.run.results[i].raised
    /\ Len(last_run.run.quality_reports) > 0

\* the calls of store_processed_content of the latest run that persisted the item
RunPersisted ==
    {k \in DOMAIN last_run.run.store_calls : last_run.run.store_calls[k].result.success}

\* C11: in _store_approved_content a store that fails has its error appended to
\* stats.errors and is not counted, and the remaining items are still attempted,
\* so total_stored is the number of items persisted.
C11_FailedStoreIsRecordedAndNotCounted ==
    last_run.called /\ last_run.run.phases = 4 =>
        /\ Len(last_run.run.store_calls) = Len(last_run.run.approved_content)
        /\ \A k \in DOMAIN last_run.run.store_calls :
              k \notin RunPersisted =>
                  \E i \in DOMAIN stats.errors : stats.errors[i].scope = "Storage"
        /\ stats.total_stored = Cardinality(RunPersisted)

\* the number of items of the latest run that raised in process_single_content or
\* in validate_single_content
RunFailedItems ==
    Cardinality({k \in DOMAIN last_run.run.collected_content :
                    process_single_content_raises(last_run.run.collected_content[k])})
        + Cardinality({i \in DOMAIN last_run.run.results : last_run.run.results[i].raised})

\* C12: after a full ingestion run stats.errors holds an entry for each item that
\* raised during processing or during quality validation.
C12_EveryFailedItemIsRecorded ==
    last_run.called /\ last_run.run.phases = 4 => Len(stats.errors) >= RunFailedItems

\* C13: process_single_file raises on every failure, after it has recorded the job
\* as failed in completed_jobs and removed it from active_jobs, and returns a
\* completed job only when the content was stored.
C13_JobCompletedOnlyWhenStored ==
    last_job.called =>
        LET job_id == last_job.job_info.job_id
        IN  /\ job_id \notin DOMAIN active_jobs
            /\ job_id \in DOMAIN completed_jobs
            /\ completed_jobs[job_id] = last_job.job_info
            /\ last_job.raised => last_job.job_info.status = "failed"
            /\ ~last_job.raised =>
                  /\ last_job.job_info.status = "completed"
                  /\ \E k \in DOMAIN storage.content_table :
                        storage.content_table[k].id = last_job.processed_content.content_id

(***************************************************************************)
(* Properties of the job APIs, under SpecJobs                              *)
(***************************************************************************)
\* the calls of process_batch_files made
BatchCalls == {k \in DOMAIN job_calls : job_calls[k].job_type = "batch"}

\* the files of the k-th job call that were processed, approved and stored
StoredFiles(k) == {i \in DOMAIN job_calls[k].outcomes : job_calls[k].outcomes[i] = "stored"}

DistinctJobIds ==
    \A j, k \in DOMAIN job_calls : j # k => job_calls[j].job_id # job_calls[k].job_id

\* the k-th job call is in exactly one of the two maps, the one of its status
InOneMap(k) ==
    LET job_id == job_calls[k].job_id
    IN  IF job_calls[k].done
        THEN /\ job_id \in DOMAIN completed_jobs /\ job_id \notin DOMAIN active_jobs
             /\ completed_jobs[job_id] = job_calls[k].job_info
             /\ completed_jobs[job_id].status \in {"completed", "failed"}
        ELSE /\ job_id \in DOMAIN active_jobs /\ job_id \notin DOMAIN completed_jobs
             /\ active_jobs[job_id].status = "processing"

\* a step leaves every terminal job as it is and out of active_jobs
TerminalJobsStay ==
    \A job_id \in DOMAIN completed_jobs :
        /\ job_id \in DOMAIN completed_jobs'
        /\ completed_jobs'[job_id] = completed_jobs[job_id]
        /\ job_id \notin DOMAIN active_jobs'

\* C15: while the job ids of the calls of process_single_file, process_batch_files
\* and sync_cloud_drives are distinct, every started job is in exactly one of
\* active_jobs and completed_jobs: in active_jobs with status 'processing' until
\* its call ends, in completed_jobs with status 'completed' or 'failed' from then
\* on, and a terminal job never changes nor returns to active_jobs.
C15_JobLifecycle ==
    /\ [](DistinctJobIds => \A k \in DOMAIN job_calls : InOneMap(k))
    /\ [][DistinctJobIds' => TerminalJobsStay]_vars

\* a sync_cloud_drives suspended in active_jobs while a later job with another id
\* has already ended in completed_jobs
C15_Witness ==
    /\ Len(job_calls) = 2 /\ DistinctJobIds
    /\ job_calls[1].job_type = "cloud_sync" /\ ~job_calls[1].done
    /\ job_calls[1].job_id \in DOMAIN active_jobs
    /\ job_calls[2].done /\ job_calls[2].job_id \in DOMAIN completed_jobs

\* the suspended sync_cloud_drives of C15_Witness has ended after the other job
C15_WitnessEnded ==
    /\ Len(job_calls) = 2 /\ DistinctJobIds
    /\ job_calls[1].job_type = "cloud_sync" /\ job_calls[1].done
    /\ job_calls[2].job_type = "batch"
    /\ DOMAIN completed_jobs = JobIds /\ DOMAIN active_jobs = {}

(***************************************************************************)
(* Properties of validate_content, under SpecVC                            *)
(***************************************************************************)
\* C16: validate_content does not raise: it returns one of its two results.  The
\* one made from the report is approved exactly when the score of the report is
\* at least min_quality_score, whatever the quality level; the one made when the
\* validation itself fails is not approved and has score 0.
C16_ApprovedIsScoreAtLeastMinimum ==
    \A i \in DOMAIN validations :
        LET result == validations[i].result
        IN  \/ /\ result.kind = "ValidationResult"
               /\ result.quality_score = result.quality_report.score
               /\ result.approved <=> (result.quality_report.score >= quality_config.min_quality_score)
            \/ /\ result.kind = "ValidationError"
               /\ ~result.approved
               /\ result.quality_score = 0

\* a result approved although its quality level is REJECTED, after a result of a
\* validation that failed
C16_Witness ==
    \E i, j \in DOMAIN validations :
        /\ validations[i].result.kind = "ValidationError"
        /\ validations[j].result.kind = "ValidationResult"
        /\ validations[j].result.approved
        /\ validations[j].result.quality_report.quality_level = REJECTED

(***************************************************************************)
(* Properties of update_config, under SpecConfig                           *)
(***************************************************************************)
\* C17: whenever update_config returns False, the configuration of the
\* coordinator and the instances its component fields hold are the same as
\* before the call.
C17_FailedUpdateChangesNothing ==
    \A i \in DOMAIN updates :
        ~updates[i].result => updates[i].after = updates[i].before

(***************************************************************************)
(* Properties of cleanup_storage, under SpecCleanup                        *)
(***************************************************************************)
\* the content ids of the rows of the five child tables of db
ChildIds(db) ==
    LET Ids(table) == {table[i].content_id : i \in DOMAIN table}
    IN  Ids(db.keywords_table) \cup Ids(db.entities_table)
            \cup Ids(db.relationships_table) \cup Ids(db.topics_table)
            \cup Ids(db.quality_issues_table)

\* the ids of the rows of the content table of db
ContentIds(db) == {db.content_table[i].id : i \in DOMAIN db.content_table}

\* C18: after every sequence of store_processed_content and cleanup_storage calls
\* each row of keywords, entities, relationships, topics and quality_issues has
\* a content_id that is the id of a row of content, and a cleanup_storage call
\* leaves no child row of a content row it deleted.
C18_NoOrphanChildRows ==
    /\ ChildIds(storage) \subseteq ContentIds(storage)
    /\ \A i \in DOMAIN cleanups :
        /\ cleanups[i].deleted \cap (ChildIds(cleanups[i].after) \cup ContentIds(cleanups[i].after)) = {}
        /\ cleanups[i].result = Cardinality(cleanups[i].deleted)

\* a cleanup_storage that deleted a content row that had child rows and left
\* another content row with its child rows
C18_Witness ==
    \E i \in DOMAIN cleanups :
        /\ cleanups[i].deleted \cap ChildIds(cleanups[i].before) # {}
        /\ ChildIds(cleanups[i].after) # {}
        /\ cleanups[i].result = 1

(***************************************************************************)
(* Properties of the concurrent validations, under SpecGather              *)
(***************************************************************************)
\* the tasks that ran to their end
DoneTasks == {k \in DOMAIN tasks : tasks[k].done}

\* the item is accepted when it is validated alone by a new controller
OtherwiseAcceptable(item) ==
    LET Accepted(out) == ~out.raised /\ out.report.quality_level # REJECTED
    IN  Accepted(validate_single_content(item, {}, <<>>, quality_config))

\* the finished tasks whose content has the normalized hash of that of task k
SameHashTasks(k) ==
    {j \in DoneTasks : _generate_content_hash(tasks[j].item.content)
                           = _generate_content_hash(tasks[k].item.content)}

\* C23: in whatever order the event loop runs the validations started by
\* validate_content_batch calls on one controller, of the otherwise acceptable
\* items with the same normalized content exactly one is accepted and every
\* other one gets the duplication score 0.0.
C23_OneOfSameContentAccepted ==
    \A k \in DoneTasks :
        OtherwiseAcceptable(tasks[k].item) =>
            \E j \in SameHashTasks(k) :
                /\ tasks[j].report.quality_level # REJECTED
                /\ \A i \in SameHashTasks(k) \ {j} :
                      /\ tasks[i].duplicate_score = 0
                      /\ tasks[i].report.quality_level = REJECTED

\* two tasks of one validate_content_batch call with the same normalized content,
\* created before either ran: the one later in the list ran first and was
\* accepted, the earlier one got the duplication score 0.0
C23_Witness ==
    \E i, j \in DoneTasks :
        /\ i < j /\ j \in SameHashTasks(i)
        /\ tasks[i].at_start = tasks[j].at_start
        /\ _generate_content_hash(tasks[i].item.content) \notin tasks[i].at_start
        /\ tasks[j].report.quality_level # REJECTED
        /\ tasks[i].duplicate_score = 0

(***************************************************************************)
(* Further properties of the coordinator, under Spec                       *)
(***************************************************************************)
\* the collected items of the latest run that process_single_content does not
\* raise on, in the order they were collected
RunProcessable ==
    Ascending({i \in DOMAIN last_run.run.collected_content :
                  ~process_single_content_raises(last_run.run.collected_content[i])})

\* C24: in _process_content_batch, with parallel_processing on or off, an item
\* that raises is caught by itself: the processed content of a run is the
\* result of every collected item that did not raise, those of the chunk of an
\* item that raised included, in the order of the items.
C24_OnlyFailedItemExcluded ==
    last_run.called /\ last_run.run.phases = 4 =>
        last_run.run.processed_content
            = [j \in DOMAIN RunProcessable |->
                  process_single_content(last_run.run.collected_content[RunProcessable[j]])]

\* C28: in a run of the pipeline that reached the storage phase, every processed
\* item is accepted or rejected by the quality report made for that very item,
\* and is stored with it, also when items of the run share a content_id: an
\* item is passed to store_processed_content exactly when its own validation
\* gave a report that is not REJECTED, and the report passed with it is its own.
C28_OwnReportDecides ==
    last_run.called /\ last_run.run.phases >= 4 =>
        /\ \A i \in DOMAIN last_run.run.processed_content :
               LET own == last_run.run.results[i]
               IN  i \in Range(RunStored)
                       <=> ~own.raised /\ own.report.quality_level # REJECTED
        /\ \A k \in DOMAIN last_run.run.store_calls :
               LET own == last_run.run.results[RunStored[k]]
               IN  ~own.raised /\ last_run.run.store_calls[k].quality_report = own.report

\* what process_file makes of the readable files
GatedContents == {process_file(file).processed_content : file \in Files \ {File(None)}}

\* the quality gate of run_full_ingestion on one processed item, from the dedup
\* state and the configuration of the coordinator: the item is validated and
\* filtered, and is passed to storage when the filter keeps it
PipelinePasses(processed_content) ==
    LET validated == _validate_content_quality(stats, <<processed_content>>,
                                               content_hashes, content_fingerprints,
                                               config.quality_control)
    IN  _filter_by_quality(<<processed_content>>, validated.quality_reports) # <<>>

\* the quality gate of process_single_file on the same item, dedup state and
\* configuration
JobPasses(processed_content) ==
    validate_content(processed_content, content_hashes, content_fingerprints,
                     quality_config).result.approved

\* C29: the pipeline and the per-file job API apply the same quality gate: from
\* the same dedup state and with the same configuration, run_full_ingestion
\* passes a processed content to storage if and only if process_single_file
\* passes it to storage.
C29_SameQualityGate ==
    \A processed_content \in GatedContents :
        PipelinePasses(processed_content) <=> JobPasses(processed_content)

\* ---------------------------------------------------------------------------
\* Further properties of the job APIs, under SpecJobs
\* ---------------------------------------------------------------------------

\* the job ids of the calls that have not finished
UnfinishedJobIds == {job_calls[k].job_id : k \in {j \in DOMAIN job_calls : ~job_calls[j].done}}

\* C25: whatever the interleaving of the job calls, also of calls given the same
\* job_id, a finished call has returned its job record or raised the failure of
\* the processing, never the KeyError of removing an entry of active_jobs that
\* another call removed, and the only entries of active_jobs are those of calls
\* that have not finished.
C25_BookkeepingNeverRaises ==
    /\ \A k \in DOMAIN job_calls :
           job_calls[k].done => job_calls[k].error \in {"none", "ValueError", "Exception"}
    /\ DOMAIN active_jobs \subseteq UnfinishedJobIds

\* the finished calls of process_batch_files and of sync_cloud_drives
FileJobCalls ==
    {k \in DOMAIN job_calls : job_calls[k].done /\ job_calls[k].job_type \in {"batch", "cloud_sync"}}

\* the ids of the rows of the content table
StoredIds(db) == {db.content_table[i].id : i \in DOMAIN db.content_table}

\* from st to st2 one file was handled: it was counted once, and as processed
\* exactly when the content table or the content files got something of it
CountedOnce(st, st2) ==
    /\ Len(st2.outcomes) = Len(st.outcomes) + 1
    /\ st2.processed_count + st2.failed_files = st.processed_count + st.failed_files + 1
    /\ st2.processed_count \in {st.processed_count, st.processed_count + 1}
    /\ st2.processed_count = st.processed_count + 1 <=> StoredIds(st2.db) # StoredIds(st.db)

\* C26: process_batch_files and sync_cloud_drives count every file they handle
\* once, as processed if and only if store_processed_content persisted its
\* content and else as failed: the body of the loop adds one to exactly one of
\* the two counters, and a finished call has processed_files + failed_files =
\* total_files, with processed_files the number of its files that were stored.
C26_EveryFileCountedOnce ==
    /\ \A k \in FileJobCalls :
           LET job_info == job_calls[k].job_info
           IN  /\ Len(job_calls[k].outcomes) = job_calls[k].total_files
               /\ job_info.processed_files = Cardinality(StoredFiles(k))
               /\ job_info.processed_files + job_info.failed_files = job_calls[k].total_files
    /\ \A file \in {File(tGood), File(None)} :
           \A st \in {InitialCounts(content_hashes, content_fingerprints, storage)} :
               \A st2 \in {handle_processed_file(
                               st, ProcessResult(process_file(file), clock),
                               quality_config, "ok")} :
                   CountedOnce(st, st2)

\* a batch of two files and a cloud sync of one file have finished, each file
\* counted as failed: one approved file was not persisted because
\* store_processed_content raised on the dict of process_file
C26_Witness ==
    /\ \E k \in FileJobCalls :
           /\ job_calls[k].job_type = "batch"
           /\ job_calls[k].total_files = 2
           /\ job_calls[k].job_info.failed_files = 2
           /\ \E i \in 1..2 : job_calls[k].outcomes[i] = "AttributeError"
    /\ \E k \in FileJobCalls :
           /\ job_calls[k].job_type = "cloud_sync"
           /\ job_calls[k].total_files = 1
           /\ job_calls[k].job_info.failed_files = 1

\* ---------------------------------------------------------------------------
\* Properties of the runs of one coordinator, under SpecRuns
\* ---------------------------------------------------------------------------

\* C27: after every call of run_full_ingestion, the first on the coordinator or a
\* later one, completed or aborted in some phase, the counters it returns are
\* consistent: total_stored + total_rejected <= total_processed <= total_collected.
C27_CountersConsistent ==
    last_run.called =>
        /\ stats.total_stored + stats.total_rejected <= stats.total_processed
        /\ stats.total_processed <= stats.total_collected

\* ---------------------------------------------------------------------------
\* Properties of the near-duplicate check, under SpecSim
\* ---------------------------------------------------------------------------

\* the word set the similarity is computed on
content_words(content) == Range(split(sub_whitespace(strip(lower(content)))))

\* the validations before the k-th whose content was accepted, that is recorded
\* for the duplicate detection
AcceptedBefore(k) ==
    {j \in 1..(k - 1) :
        /\ ~validations[j].raised
        /\ RecordsFingerprint(validations[j].report.quality_level)}

\* the k-th validated content has a word in common with one accepted before it
SharesWords(k) ==
    \E j \in AcceptedBefore(k) :
        content_words(validations[j].item.content)
            \cap content_words(validations[k].item.content) # {}

\* C30: the near-duplicate penalty reflects the similarity to prior content:
\* _check_duplicates gives the duplication score 2.0 or 6.0 only to a content
\* that shares a word with some content accepted before, and a content that
\* shares no word with any of them gets 10.0, whatever its length.
C30_PenaltyOnlyOnOverlap ==
    \A k \in DOMAIN validations :
        ~validations[k].raised =>
            /\ validations[k].duplicate_score \in {2, 6} => SharesWords(k)
            /\ ~SharesWords(k) => validations[k].duplicate_score = PERFECT

====
